---- MODULE Spec2Model ----
(***************************************************************************)
(* ActorManager (source/main/physics/BeamFactory.cpp) of Rigs of Rods:     *)
(* the actor slot registry, the sleep/wake state machine, the frame        *)
(* scheduler and the background simulation task.                           *)
(*                                                                         *)
(* Two threads are modelled: the caller (main) thread, which runs the      *)
(* public operations of ActorManager one at a time, and the worker of      *)
(* m_sim_thread_pool (a ThreadPool of one thread), which runs the          *)
(* UpdatePhysicsSimulation tasks handed to it by update().                 *)
(*                                                                         *)
(* Time is counted in units of 1/10000 s.  A null pointer is NULL; a       *)
(* slot index of -1 is "none".                                             *)
(***************************************************************************)
EXTENDS Integers, Sequences, FiniteSets, TLC

\* ------------------------------------------------------------------ bounds
\* MAX_TRUCKS is a constant of BeamConstants.h; the model keeps it small.
MAX_TRUCKS == 3
\* update() increments m_physics_frames without bound; the model stops there.
MaxFrames == 2
MaxSubsteps == 2
NodeValues == 7

\* ------------------------------------------------------- program constants
\* PHYSICS_DT (BeamConstants.h, 0.0005 s) in time units.
PHYSICS_DT == 5
\* "do not allow dt > 1/20": 1.0f / 20.0f in time units.
MAX_FRAME_DT == 500
\* ar_sleep_counter >= 10.0f, in time units.
SLEEP_THRESHOLD == 100000

NULL == [null |-> TRUE]
NONE == 0 - 1

Slots == 0 .. (MAX_TRUCKS - 1)

\* Actor::SimState
LOCAL_SIMULATED == "LOCAL_SIMULATED"
NETWORKED_OK == "NETWORKED_OK"
LOCAL_SLEEPING == "LOCAL_SLEEPING"
INVALID == "INVALID"

\* --------------------------------------------------------------- geometry
\* An axis-aligned box, reduced to one axis: [lo, hi].  Dilation about the
\* center by scale s10/10 is computed in units of 1/20 so that it stays in
\* the integers: 20*(center -+ half*scale) = 10*(lo+hi) -+ s10*(hi-lo).
Box(lo, hi) == [lo |-> lo, hi |-> hi]

Dilate(a, s10) ==
    [lo |-> 10 * (a.lo + a.hi) - s10 * (a.hi - a.lo),
     hi |-> 10 * (a.lo + a.hi) + s10 * (a.hi - a.lo)]

\* Ogre::AxisAlignedBox::intersects: closed boxes, touching counts.
BoxIntersects(a, b) == ~(a.hi < b.lo \/ a.lo > b.hi)

intersectionAABB(a, b, s10) ==
    IF s10 # 10
    THEN BoxIntersects(Dilate(a, s10), Dilate(b, s10))
    ELSE BoxIntersects(a, b)

truckIntersectionAABB(A, a, b, s10) ==
    intersectionAABB(A[a].ar_bounding_box, A[b].ar_bounding_box, s10)

predictTruckIntersectionAABB(A, a, b, s10) ==
    intersectionAABB(A[a].ar_predicted_bounding_box, A[b].ar_predicted_bounding_box, s10)

SeqRange(s) == {s[i] : i \in 1 .. Len(s)}

truckIntersectionCollAABB(A, a, b, s10) ==
    LET ca == A[a].ar_collision_bounding_boxes
        cb == A[b].ar_collision_bounding_boxes
    IN  IF ca = <<>> /\ cb = <<>>
        THEN truckIntersectionAABB(A, a, b, s10)
        ELSE IF ca = <<>>
        THEN \E x \in SeqRange(cb) : intersectionAABB(x, A[a].ar_bounding_box, s10)
        ELSE IF cb = <<>>
        THEN \E x \in SeqRange(ca) : intersectionAABB(x, A[b].ar_bounding_box, s10)
        ELSE \E x \in SeqRange(ca) : \E y \in SeqRange(cb) : intersectionAABB(x, y, s10)

predictTruckIntersectionCollAABB(A, a, b, s10) ==
    LET ca == A[a].ar_predicted_coll_bounding_boxes
        cb == A[b].ar_predicted_coll_bounding_boxes
    IN  IF ca = <<>> /\ cb = <<>>
        THEN predictTruckIntersectionAABB(A, a, b, s10)
        ELSE IF ca = <<>>
        THEN \E x \in SeqRange(cb) : intersectionAABB(x, A[a].ar_predicted_bounding_box, s10)
        ELSE IF cb = <<>>
        THEN \E x \in SeqRange(ca) : intersectionAABB(x, A[b].ar_predicted_bounding_box, s10)
        ELSE \E x \in SeqRange(ca) : \E y \in SeqRange(cb) : intersectionAABB(x, y, s10)

\* ----------------------------------------------------------------- actors
\* What "new Actor(...)" yields is decided by the rig definition that is
\* loaded (fname / reg->name), outside this file.  A definition fixes the
\* geometry, whether the actor moves, and whether loading fails (INVALID).
ActorDef(st, mv, bb, pbb, cbs, pcbs) ==
    [sim_state |-> st, moving |-> mv,
     bounding_box |-> bb, predicted_bounding_box |-> pbb,
     collision_bounding_boxes |-> cbs, predicted_coll_bounding_boxes |-> pcbs]

\* The rig definitions the spawn requests of the registry model draw from.
SpawnDefs ==
    { ActorDef(LOCAL_SLEEPING, TRUE, Box(0, 10), Box(0, 12), <<>>, <<>>),
      ActorDef(INVALID, FALSE, Box(0, 0), Box(0, 0), <<>>, <<>>) }

\* The rig definitions the remote registrations name.
RemoteDefs ==
    { ActorDef(LOCAL_SIMULATED, TRUE, Box(11, 20), Box(12, 22), <<>>, <<>>),
      ActorDef(INVALID, FALSE, Box(0, 0), Box(0, 0), <<>>, <<>>) }

\* Actor::Actor(sim_controller, truck_num, ..., networked, ...)
NewActor(truck_num, def, networked) ==
    [ar_instance_id |-> truck_num,
     ar_sim_state |-> IF def.sim_state = INVALID THEN INVALID
                      ELSE IF networked THEN NETWORKED_OK
                      ELSE def.sim_state,
     ar_sleep_counter |-> 0,
     moving |-> def.moving,
     ar_bounding_box |-> def.bounding_box,
     ar_predicted_bounding_box |-> def.predicted_bounding_box,
     ar_collision_bounding_boxes |-> def.collision_bounding_boxes,
     ar_predicted_coll_bounding_boxes |-> def.predicted_coll_bounding_boxes,
     ar_net_source_id |-> NONE,
     ar_net_stream_id |-> NONE,
     ar_update_physics |-> FALSE]

\* ------------------------------------------------------------------ state
VARIABLES
    m_actors,             \* Actor* m_actors[MAX_TRUCKS]: NULL or the actor
    m_free_actor_slot,    \* the high-water mark
    m_player_actor,
    m_prev_player_actor,
    m_forced_active,
    m_dt_remainder,
    m_physics_steps,
    m_physics_frames,
    m_simulation_speed,
    mrTime,               \* gEnv->mrTime
    sim_thread_pool,      \* m_sim_thread_pool is set (app_multithread)
    threadPool,           \* gEnv->threadPool: its number of workers; 0: none
    phase,                \* where UpdatePhysicsSimulation is inside a substep
    num_simulated_trucks, \* the local counter of the substep
    batch,                \* the tasks handed to Parallelize, per actor
    body,                 \* per actor: its nodes (position, force) and the
                          \* collision flags UpdatePhysicsSimulation reads
    body0,                \* body at the start of the invocation
    cursor,               \* the loop variable t of the loops without a pool
    did,                  \* per actor: the substep it was last prepared in
                          \* and its operations since, in order
    m_sim_task,           \* handle of the task last given to RunTask; 0: none
    sim_queue,            \* the tasks given to m_sim_thread_pool, not yet finished
    sim,                  \* position of the running UpdatePhysicsSimulation
    pc,                   \* position of the caller thread
    pend,                 \* the operation the caller thread is inside of
    live,                 \* instance ids of the actors constructed and not deleted
    notified,             \* arguments of the last ChangedCurrentVehicle call
    alloc_count,          \* how often GetFreeTruckSlot returned each index
    last_alloc,           \* what the last GetFreeTruckSlot call returned
    slot_read,            \* the indices at which the last removeTruck call
                          \* that was traced read m_actors
    dt_log,               \* the dt arguments of the update calls so far
    steps_log,            \* the m_physics_steps each update call computed
    last_op               \* the operation the caller thread last returned from:
                          \* a spawn, "DeleteTruck" (a call that ran DeleteTruck
                          \* on an actor), "CleanUpAllTrucks", or "other"; what
                          \* it returned; whether it waited in SyncWithSimThread

regvars == <<m_actors, m_free_actor_slot, m_player_actor, m_prev_player_actor,
             m_forced_active, live, notified>>
stepvars == <<m_dt_remainder, m_physics_steps, m_physics_frames, m_simulation_speed,
              mrTime>>
logvars == <<dt_log, steps_log>>
schedvars == <<stepvars, logvars>>
taskvars == <<m_sim_task, sim_queue, sim>>
dispvars == <<threadPool, phase, num_simulated_trucks, batch, body, body0, cursor, did>>
poolvars == <<sim_thread_pool, dispvars>>
callvars == <<pc, pend, last_op>>
allocvars == <<alloc_count, last_alloc, slot_read>>
vars == <<regvars, schedvars, taskvars, poolvars, callvars, allocvars>>

\* The fields of the ActorManager object that the registry operations and
\* the sleep/wake state machine read and write, as one record.
Cur ==
    [m_actors |-> m_actors, m_free_actor_slot |-> m_free_actor_slot,
     m_player_actor |-> m_player_actor, m_prev_player_actor |-> m_prev_player_actor,
     m_forced_active |-> m_forced_active, live |-> live, notified |-> notified]

Commit(S) ==
    /\ m_actors' = S.m_actors
    /\ m_free_actor_slot' = S.m_free_actor_slot
    /\ m_player_actor' = S.m_player_actor
    /\ m_prev_player_actor' = S.m_prev_player_actor
    /\ m_forced_active' = S.m_forced_active
    /\ live' = S.live
    /\ notified' = S.notified

\* ------------------------------------------------- sleep/wake state machine
getTruck(S, number) ==
    IF number >= 0 /\ number < S.m_free_actor_slot
    THEN S.m_actors[number]
    ELSE NULL

GetPlayerActorInternal(S) == getTruck(S, S.m_player_actor)

RECURSIVE RecursiveActivation(_, _, _)
RECURSIVE RecursiveActivationLoop(_, _, _, _)

RECURSIVE RecursiveActivationLoop_NoRecursion(_, _, _, _)
\* variant: the loop that wakes the sleeping actors it finds and does not
\* go on from them
RecursiveActivationLoop_NoRecursion(j, t, F, st) ==
    IF t >= F THEN st
    ELSE IF t = j \/ st.A[t] = NULL \/ t \in st.V
    THEN RecursiveActivationLoop_NoRecursion(j, t + 1, F, st)
    ELSE
      LET st1 == IF st.A[t].ar_sim_state = LOCAL_SIMULATED
                    /\ truckIntersectionCollAABB(st.A, t, j, 12)
                 THEN RecursiveActivation(t, F,
                        [st EXCEPT !.A[t].ar_sleep_counter = 0])
                 ELSE st
          st2 == IF st1.A[t].ar_sim_state = LOCAL_SLEEPING
                    /\ predictTruckIntersectionCollAABB(st1.A, t, j, 10)
                 THEN [st1 EXCEPT !.A[t].ar_sleep_counter = 0,
                                  !.A[t].ar_sim_state = LOCAL_SIMULATED,
                                  !.V = @ \cup {t}]
                 ELSE st1
      IN  RecursiveActivationLoop_NoRecursion(j, t + 1, F, st2)

RECURSIVE RecursiveActivationLoop_WakeAny(_, _, _, _)
\* variant: the loop that wakes every overlapping actor that is not
\* simulated, whatever its state
RecursiveActivationLoop_WakeAny(j, t, F, st) ==
    IF t >= F THEN st
    ELSE IF t = j \/ st.A[t] = NULL \/ t \in st.V
    THEN RecursiveActivationLoop_WakeAny(j, t + 1, F, st)
    ELSE
      LET st1 == IF st.A[t].ar_sim_state = LOCAL_SIMULATED
                    /\ truckIntersectionCollAABB(st.A, t, j, 12)
                 THEN RecursiveActivation(t, F,
                        [st EXCEPT !.A[t].ar_sleep_counter = 0])
                 ELSE st
          st2 == IF st1.A[t].ar_sim_state # LOCAL_SIMULATED
                    /\ predictTruckIntersectionCollAABB(st1.A, t, j, 10)
                 THEN RecursiveActivation(t, F,
                        [st1 EXCEPT !.A[t].ar_sleep_counter = 0,
                                    !.A[t].ar_sim_state = LOCAL_SIMULATED])
                 ELSE st1
      IN  RecursiveActivationLoop_WakeAny(j, t + 1, F, st2)

\* "std::bitset<MAX_TRUCKS> visited;" at the start of the propagation over
\* the table A: nothing visited, no call of RecursiveActivation under way.
NothingVisited(A) ==
    [A |-> A, V |-> {}, E |-> <<>>, d |-> 0, D |-> 0, A0 |-> A]

\* "visited.set(j, true);": the call RecursiveActivation(j, visited) has
\* passed its entry test
CallEntered(j, st) ==
    [st EXCEPT !.V = @ \cup {j},
               !.E = Append(@, j),
               !.d = @ + 1,
               !.D = IF @ > st.d THEN @ ELSE st.d + 1]

\* the call returns after its loop
CallReturned(st) == [st EXCEPT !.d = @ - 1]

\* variant: RecursiveActivation without the `visited[j]' test at its entry
RecursiveActivation_NoVisitedTest(j, F, st) ==
    IF st.A[j] = NULL \/ st.A[j].ar_sim_state # LOCAL_SIMULATED
    THEN st
    ELSE CallReturned(RecursiveActivationLoop(j, 0, F, CallEntered(j, st)))

\* st = [A |-> the actors, V |-> the visited bitset, and what the calls did
\* so far: E |-> the actors visited.set was called for, in order, d |-> the
\* number of calls that have passed the entry test and not returned,
\* D |-> the largest d so far, A0 |-> the actors when the propagation
\* started]; F is m_free_actor_slot.
RecursiveActivation(j, F, st) ==
    IF j \in st.V \/ st.A[j] = NULL \/ st.A[j].ar_sim_state # LOCAL_SIMULATED
    THEN st
    ELSE CallReturned(RecursiveActivationLoop(j, 0, F, CallEntered(j, st)))

\* the for loop of RecursiveActivation, from index t on
RecursiveActivationLoop(j, t, F, st) ==
    IF t >= F THEN st
    ELSE IF t = j \/ st.A[t] = NULL \/ t \in st.V
    THEN RecursiveActivationLoop(j, t + 1, F, st)
    ELSE
      LET st1 == IF st.A[t].ar_sim_state = LOCAL_SIMULATED
                    /\ truckIntersectionCollAABB(st.A, t, j, 12)
                 THEN RecursiveActivation(t, F,
                        [st EXCEPT !.A[t].ar_sleep_counter = 0])
                 ELSE st
          st2 == IF st1.A[t].ar_sim_state = LOCAL_SLEEPING
                    /\ predictTruckIntersectionCollAABB(st1.A, t, j, 10)
                 THEN RecursiveActivation(t, F,
                        [st1 EXCEPT !.A[t].ar_sleep_counter = 0,
                                    !.A[t].ar_sim_state = LOCAL_SIMULATED])
                 ELSE st1
      IN  RecursiveActivationLoop(j, t + 1, F, st2)

\* variant: the sleep timers with the actor put to sleep only once its
\* timer is above the threshold
SleepTimers_Late(S, dt) ==
    [t \in Slots |->
        IF t < S.m_free_actor_slot /\ S.m_actors[t] # NULL
           /\ S.m_actors[t].ar_sim_state = LOCAL_SIMULATED
           /\ ~S.m_actors[t].moving
        THEN LET c == S.m_actors[t].ar_sleep_counter + dt
             IN  [S.m_actors[t] EXCEPT
                    !.ar_sleep_counter = c,
                    !.ar_sim_state = IF c > SLEEP_THRESHOLD THEN LOCAL_SLEEPING ELSE @]
        ELSE S.m_actors[t]]

\* the first loop of UpdateSleepingState: the sleep timers
SleepTimers(S, dt) ==
    [t \in Slots |->
        IF t < S.m_free_actor_slot /\ S.m_actors[t] # NULL
           /\ S.m_actors[t].ar_sim_state = LOCAL_SIMULATED
           /\ ~S.m_actors[t].moving
        THEN LET c == S.m_actors[t].ar_sleep_counter + dt
             IN  [S.m_actors[t] EXCEPT
                    !.ar_sleep_counter = c,
                    !.ar_sim_state = IF c >= SLEEP_THRESHOLD THEN LOCAL_SLEEPING ELSE @]
        ELSE S.m_actors[t]]

RECURSIVE Snowball(_, _, _)
\* the last loop of UpdateSleepingState, from index t on
Snowball(t, F, st) ==
    IF t >= F THEN st
    ELSE IF st.A[t] # NULL /\ st.A[t].ar_sim_state = LOCAL_SIMULATED
            /\ st.A[t].ar_sleep_counter = 0
    THEN Snowball(t + 1, F, RecursiveActivation(t, F, st))
    ELSE Snowball(t + 1, F, st)

\* variant: UpdateSleepingState that runs the sleep timers whatever
\* m_forced_active says
UpdateSleepingState_TimersAlways(S, dt) ==
    LET F  == S.m_free_actor_slot
        A1 == SleepTimers(S, dt)
        S1 == [S EXCEPT !.m_actors = A1]
        p  == S.m_player_actor
        has == GetPlayerActorInternal(S1) # NULL
        A2 == IF has /\ A1[p].ar_sim_state = LOCAL_SLEEPING
              THEN [A1 EXCEPT ![p].ar_sim_state = LOCAL_SIMULATED]
              ELSE A1
        st0 == NothingVisited(A2)
        st1 == IF has /\ A2[p].ar_sim_state = LOCAL_SIMULATED
               THEN RecursiveActivation(p, F,
                      [st0 EXCEPT !.A[p].ar_sleep_counter = 0])
               ELSE st0
        st2 == Snowball(0, F, st1)
    IN  [S EXCEPT !.m_actors = st2.A]

\* variant: UpdateSleepingState that does not wake the player actor
UpdateSleepingState_PlayerAsleep(S, dt) ==
    LET F  == S.m_free_actor_slot
        A1 == IF ~S.m_forced_active THEN SleepTimers(S, dt) ELSE S.m_actors
        S1 == [S EXCEPT !.m_actors = A1]
        p  == S.m_player_actor
        has == GetPlayerActorInternal(S1) # NULL
        st0 == NothingVisited(A1)
        st1 == IF has /\ A1[p].ar_sim_state = LOCAL_SIMULATED
               THEN RecursiveActivation(p, F,
                      [st0 EXCEPT !.A[p].ar_sleep_counter = 0])
               ELSE st0
        st2 == Snowball(0, F, st1)
    IN  [S EXCEPT !.m_actors = st2.A]

\* UpdateSleepingState(dt) up to its last line: the actors, the visited
\* bitset and what the calls of RecursiveActivation did
UpdateSleepingStateRun(S, dt) ==
    LET F  == S.m_free_actor_slot
        A1 == IF ~S.m_forced_active THEN SleepTimers(S, dt) ELSE S.m_actors
        S1 == [S EXCEPT !.m_actors = A1]
        p  == S.m_player_actor
        has == GetPlayerActorInternal(S1) # NULL
        A2 == IF has /\ A1[p].ar_sim_state = LOCAL_SLEEPING
              THEN [A1 EXCEPT ![p].ar_sim_state = LOCAL_SIMULATED]
              ELSE A1
        st0 == NothingVisited(A2)
        st1 == IF has /\ A2[p].ar_sim_state = LOCAL_SIMULATED
               THEN RecursiveActivation(p, F,
                      [st0 EXCEPT !.A[p].ar_sleep_counter = 0])
               ELSE st0
        st2 == Snowball(0, F, st1)
    IN  st2

UpdateSleepingState(S, dt) ==
    [S EXCEPT !.m_actors = UpdateSleepingStateRun(S, dt).A]

\* ------------------------------------------------------------ the registry
\* A pointer argument as the callee sees it: the actor's identity, or NONE
\* for a null pointer.
ActorPtr(a) == IF a = NULL THEN NONE ELSE a.ar_instance_id

RECURSIVE GetFreeTruckSlotLoop_Reuse(_, _)
\* variant: the loop without the `t >= m_free_actor_slot' condition, which
\* returns the lowest empty slot
GetFreeTruckSlotLoop_Reuse(S, t) ==
    IF t >= MAX_TRUCKS THEN NONE
    ELSE IF S.m_actors[t] = NULL THEN t
    ELSE GetFreeTruckSlotLoop_Reuse(S, t + 1)

RECURSIVE GetFreeTruckSlotLoop(_, _)
\* the for loop of GetFreeTruckSlot from index t on: the index it returns
GetFreeTruckSlotLoop(S, t) ==
    IF t >= MAX_TRUCKS THEN NONE
    ELSE IF S.m_actors[t] = NULL /\ t >= S.m_free_actor_slot THEN t
    ELSE GetFreeTruckSlotLoop(S, t + 1)

\* [ret |-> the index returned, S |-> the manager after the call]
GetFreeTruckSlot(S) ==
    LET t == GetFreeTruckSlotLoop(S, 0)
    IN  [ret |-> t,
         S |-> IF t # NONE /\ t >= S.m_free_actor_slot
               THEN [S EXCEPT !.m_free_actor_slot = t + 1]
               ELSE S]

\* m_sim_controller->ChangedCurrentVehicle(prev, cur)
ChangedCurrentVehicle(S, prev, cur) ==
    [S EXCEPT !.notified = [prev |-> ActorPtr(prev), cur |-> ActorPtr(cur)]]

setCurrentTruckBody(S, new_truck) ==
    LET S1 == [S EXCEPT !.m_prev_player_actor = S.m_player_actor,
                        !.m_player_actor = new_truck]
        pv == S1.m_prev_player_actor
        pl == S1.m_player_actor
        S2 == IF pv >= 0 /\ pl >= 0
              THEN ChangedCurrentVehicle(S1, S1.m_actors[pv], S1.m_actors[pl])
              ELSE IF pv >= 0
              THEN ChangedCurrentVehicle(S1, S1.m_actors[pv], NULL)
              ELSE IF pl >= 0
              THEN ChangedCurrentVehicle(S1, NULL, S1.m_actors[pl])
              ELSE ChangedCurrentVehicle(S1, NULL, NULL)
    IN  UpdateSleepingState(S2, 0)

\* variant: DeleteTruck without the player check
DeleteTruckTail_NoDeselect(S, id) ==
    [S EXCEPT !.m_actors[id] = NULL, !.live = @ \ {id}]

\* variant: DeleteTruck that deletes the actor and leaves its slot as it is
DeleteTruckTail_KeepSlot(S, id) ==
    LET S1 == IF S.m_player_actor = id THEN setCurrentTruckBody(S, NONE) ELSE S
    IN  [S1 EXCEPT !.live = @ \ {id}]

\* DeleteTruck(b) from the line after SyncWithSimThread on; b is given by
\* its ar_instance_id.
DeleteTruckTail(S, id) ==
    LET S1 == IF S.m_player_actor = id THEN setCurrentTruckBody(S, NONE) ELSE S
    IN  [S1 EXCEPT !.m_actors[id] = NULL, !.live = @ \ {id}]

RECURSIVE CleanUpLoop(_, _)
CleanUpLoop(S, i) ==
    IF i >= S.m_free_actor_slot THEN S
    ELSE IF S.m_actors[i] = NULL THEN CleanUpLoop(S, i + 1)
    ELSE CleanUpLoop([S EXCEPT !.live = @ \ {S.m_actors[i].ar_instance_id},
                               !.m_actors[i] = NULL], i + 1)

\* variant: CleanUpAllTrucks with `m_free_actor_slot = 0' at its end
CleanUpAllTrucksBody_ResetMark(S) ==
    [CleanUpLoop(S, 0) EXCEPT !.m_player_actor = NONE, !.m_free_actor_slot = 0]

CleanUpAllTrucksBody(S) ==
    [CleanUpLoop(S, 0) EXCEPT !.m_player_actor = NONE]

\* Does RemoveStreamSource(sourceid) reach a DeleteTruck call?
StreamSourceActors(S, sourceid) ==
    {t \in Slots : /\ t < S.m_free_actor_slot
                   /\ S.m_actors[t] # NULL
                   /\ S.m_actors[t].ar_sim_state = NETWORKED_OK
                   /\ S.m_actors[t].ar_net_source_id = sourceid}

RECURSIVE RemoveStreamSourceLoop(_, _, _)
RemoveStreamSourceLoop(S, sourceid, t) ==
    IF t >= S.m_free_actor_slot THEN S
    ELSE IF S.m_actors[t] = NULL THEN RemoveStreamSourceLoop(S, sourceid, t + 1)
    ELSE IF S.m_actors[t].ar_sim_state # NETWORKED_OK
    THEN RemoveStreamSourceLoop(S, sourceid, t + 1)
    ELSE IF S.m_actors[t].ar_net_source_id = sourceid
    THEN RemoveStreamSourceLoop(DeleteTruckTail(S, S.m_actors[t].ar_instance_id),
                                sourceid, t + 1)
    ELSE RemoveStreamSourceLoop(S, sourceid, t + 1)

\* variant: SyncWithSimThread that does not join the task
SyncWithSimThread_NoJoin == TRUE

\* ------------------------------------------------- the background task
\* m_sim_task->join() returns once the task m_sim_task refers to has run to
\* its end; with no task (m_sim_task null) SyncWithSimThread returns at once.
SyncWithSimThread ==
    m_sim_task = 0 \/ m_sim_task \notin SeqRange(sim_queue)

NoTask == [at |-> "none", hits |-> {}]

NoBody == [pos |-> 0, force |-> 0, ar_disable_self_collision |-> FALSE,
           ar_disable_actor2actor_collision |-> FALSE, ar_collision_relevant |-> FALSE]

\* No operation of a substep has run on the actor.
NoOps == [i |-> 0 - 1, ops |-> <<>>]

\* No gEnv->threadPool and no substep under way; the nodes of the actors
\* are left out.
NoDispatch ==
    /\ cursor = 0
    /\ did = [t \in Slots |-> NoOps]
    /\ threadPool = 0
    /\ phase = "prepare"
    /\ num_simulated_trucks = 0
    /\ batch = [t \in Slots |-> NoTask]
    /\ body = [t \in Slots |-> NoBody]
    /\ body0 = body

SimIdle == [pc |-> "idle", i |-> 0]
SimStart == [pc |-> "pre", i |-> 0]

NoPend == [op |-> "none", arg |-> NONE]
Returned(op, ret, waited) ==
    [op |-> op, ret |-> ret, waited |-> waited]

Return(op, arg, ret, waited) ==
    /\ pc' = "idle"
    /\ pend' = NoPend
    /\ last_op' = Returned(op, ret, waited)

\* The caller thread stays inside m_sim_task->join().
Block(op, arg) ==
    /\ pc' = "join"
    /\ pend' = [op |-> op, arg |-> arg]
    /\ UNCHANGED last_op

\* --------------------------------------------------------------- spawning
\* network peers: those that register streams, and all that may leave
RegSources == {1}
Sources == {1, 2}
StreamIds == {0}

\* CreateLocalRigInstance / CreateRemoteInstance from the GetFreeTruckSlot
\* call on.  ok_ret is what a successful spawn returns.
\* variant: the spawn without the `ar_sim_state == INVALID' test
Spawn_KeepInvalid(op, def, networked, source_id, stream_id, ok_ret) ==
    LET g == GetFreeTruckSlot(Cur)
    IN  IF g.ret = NONE
        THEN /\ UNCHANGED <<regvars, alloc_count>>
             /\ last_alloc' = NONE
             /\ UNCHANGED slot_read
             /\ Return(op, NONE, IF networked THEN NONE ELSE 0, FALSE)
        ELSE LET b  == NewActor(g.ret, def, networked)
                 S1 == [g.S EXCEPT !.live = @ \cup {g.ret}]
             IN  /\ last_alloc' = g.ret
                 /\ UNCHANGED slot_read
                 /\ alloc_count' = [alloc_count EXCEPT ![g.ret] = IF @ < 2 THEN @ + 1 ELSE @]
                 /\ Commit([S1 EXCEPT !.m_actors[g.ret] = b])
                 /\ Return(op, g.ret, ok_ret, FALSE)

Spawn(op, def, networked, source_id, stream_id, ok_ret) ==
    LET g == GetFreeTruckSlot(Cur)
    IN  IF g.ret = NONE
        THEN /\ UNCHANGED <<regvars, alloc_count>>
             /\ last_alloc' = NONE
             /\ UNCHANGED slot_read
             /\ Return(op, NONE, IF networked THEN NONE ELSE 0, FALSE)
        ELSE LET b  == NewActor(g.ret, def, networked)
                 S1 == [g.S EXCEPT !.live = @ \cup {g.ret}]
             IN  /\ last_alloc' = g.ret
                 /\ UNCHANGED slot_read
                 /\ alloc_count' = [alloc_count EXCEPT ![g.ret] = IF @ < 2 THEN @ + 1 ELSE @]
                 /\ IF b.ar_sim_state = INVALID
                    THEN IF SyncWithSimThread
                         THEN /\ Commit(DeleteTruckTail(S1, g.ret))
                              /\ Return(op, g.ret, IF networked THEN NONE ELSE 0, FALSE)
                         ELSE /\ Commit(S1)
                              /\ Block(op, g.ret)
                    ELSE /\ Commit([S1 EXCEPT !.m_actors[g.ret] =
                                      IF networked
                                      THEN [b EXCEPT !.ar_net_source_id = source_id,
                                                     !.ar_net_stream_id = stream_id]
                                      ELSE b])
                         /\ Return(op, g.ret, ok_ret, FALSE)

\* Returns the actor (here 1) or the null pointer (0).
CreateLocalRigInstance(def) ==
    /\ pc = "idle"
    /\ Spawn("CreateLocalRigInstance", def, FALSE, NONE, NONE,
             1)
    /\ UNCHANGED <<schedvars, taskvars, poolvars>>

\* reg = [origin_sourceid, origin_streamid, def]; loaded is the answer of
\* CacheSystem::checkResourceLoaded.
CreateRemoteInstance(reg, loaded) ==
    /\ pc = "idle"
    /\ IF ~loaded
       THEN /\ UNCHANGED <<regvars, allocvars>>
            /\ Return("CreateRemoteInstance", NONE, NONE, FALSE)
       ELSE Spawn("CreateRemoteInstance", reg.def, TRUE, reg.origin_sourceid,
                  reg.origin_streamid, 1)
    /\ UNCHANGED <<schedvars, taskvars, poolvars>>

\* --------------------------------------------------------------- deleting
\* DeleteTruck(b) called by an operation op of the caller thread.
DeleteTruckCall(op, id) ==
    IF SyncWithSimThread
    THEN /\ Commit(DeleteTruckTail(Cur, id))
         /\ Return(op, id, 0, FALSE)
    ELSE /\ UNCHANGED regvars
         /\ Block(op, id)

\* DeleteTruck(m_actors[t]); an empty slot gives the null pointer.
DeleteTruck(t) ==
    /\ pc = "idle"
    /\ IF m_actors[t] = NULL
       THEN /\ UNCHANGED regvars
            /\ Return("other", NONE, 0, FALSE)
       ELSE DeleteTruckCall("DeleteTruck", m_actors[t].ar_instance_id)
    /\ UNCHANGED <<schedvars, taskvars, poolvars, allocvars>>

\* What the expression m_actors[truck] yields: the slot, or, past the end of
\* the array, whatever lies there (oob).
SlotValue(truck, oob) == IF truck \in Slots THEN m_actors[truck] ELSE oob

\* The indices at which removeTruck(truck) evaluates m_actors[truck].
removeTruckReads(truck) ==
    IF truck < 0 \/ truck > m_free_actor_slot THEN {} ELSE {truck}

\* removeTruck(truck) from its first line on
removeTruckBody(truck, oob) ==
    IF truck < 0 \/ truck > m_free_actor_slot
    THEN /\ UNCHANGED regvars
         /\ Return("other", truck, 0, FALSE)
    ELSE IF SlotValue(truck, oob) = NULL
    THEN /\ UNCHANGED regvars
         /\ Return("other", truck, 0, FALSE)
    ELSE IF SlotValue(truck, oob).ar_sim_state = NETWORKED_OK
    THEN /\ UNCHANGED regvars
         /\ Return("other", truck, 0, FALSE)
    ELSE DeleteTruckCall("DeleteTruck", SlotValue(truck, oob).ar_instance_id)

removeTruck(truck) ==
    /\ pc = "idle"
    /\ removeTruckBody(truck, NULL)
    /\ UNCHANGED <<schedvars, taskvars, poolvars, allocvars>>

RemoveStreamSource(sourceid) ==
    /\ pc = "idle"
    /\ IF StreamSourceActors(Cur, sourceid) = {}
       THEN /\ UNCHANGED regvars
            /\ Return("other", sourceid, 0, FALSE)
       ELSE IF SyncWithSimThread
       THEN /\ Commit(RemoveStreamSourceLoop(Cur, sourceid, 0))
            /\ Return("DeleteTruck", sourceid, 0, FALSE)
       ELSE /\ UNCHANGED regvars
            /\ Block("RemoveStreamSource", sourceid)
    /\ UNCHANGED <<schedvars, taskvars, poolvars, allocvars>>

CleanUpAllTrucks ==
    /\ pc = "idle"
    /\ Commit(CleanUpAllTrucksBody(Cur))
    /\ Return("CleanUpAllTrucks", NONE, 0, FALSE)
    /\ UNCHANGED <<schedvars, taskvars, poolvars, allocvars>>

\* The callers (enterNextTruck, enterPreviousTruck, DeleteTruck, ...) select
\* an actor of the table that is not a networked one, or nobody (-1).
setCurrentTruck(new_truck) ==
    /\ pc = "idle"
    /\ IF new_truck = NONE THEN TRUE
       ELSE /\ new_truck < m_free_actor_slot
            /\ m_actors[new_truck] # NULL
            /\ m_actors[new_truck].ar_sim_state # NETWORKED_OK
    /\ Commit(setCurrentTruckBody(Cur, new_truck))
    /\ Return("other", new_truck, 0, FALSE)
    /\ UNCHANGED <<schedvars, taskvars, poolvars, allocvars>>

\* The caller thread returns from m_sim_task->join() inside DeleteTruck.
ResumeDeleteTruck ==
    /\ pc = "join"
    /\ pend.op \in {"DeleteTruck", "CreateLocalRigInstance", "CreateRemoteInstance"}
    /\ SyncWithSimThread
    /\ Commit(DeleteTruckTail(Cur, pend.arg))
    /\ Return(pend.op, pend.arg,
              IF pend.op = "CreateRemoteInstance" THEN NONE ELSE 0, TRUE)
    /\ UNCHANGED <<schedvars, taskvars, poolvars, allocvars>>

ResumeRemoveStreamSource ==
    /\ pc = "join"
    /\ pend.op = "RemoveStreamSource"
    /\ SyncWithSimThread
    /\ Commit(RemoveStreamSourceLoop(Cur, pend.arg, 0))
    /\ Return("DeleteTruck", pend.arg, 0, TRUE)
    /\ UNCHANGED <<schedvars, taskvars, poolvars, allocvars>>

\* ------------------------------------------------------- the frame scheduler
Min(a, b) == IF a < b THEN a ELSE b

\* variant: update without "dt = std::min(dt, 1.0f / 20.0f)"
FrameSteps_NoClamp(dt, speed, remainder) ==
    LET d3 == (dt * speed) + remainder
        n  == d3 \div PHYSICS_DT
    IN  [steps |-> n, remainder |-> d3 - (n * PHYSICS_DT), dt |-> PHYSICS_DT * n]

\* variant: update without "dt += m_dt_remainder"
FrameSteps_NoCarry(dt, speed, remainder) ==
    LET d2 == Min(dt, MAX_FRAME_DT) * speed
        n  == d2 \div PHYSICS_DT
    IN  [steps |-> n, remainder |-> d2 - (n * PHYSICS_DT), dt |-> PHYSICS_DT * n]

\* variant: update without "dt = PHYSICS_DT * m_physics_steps"
FrameSteps_RawDt(dt, speed, remainder) ==
    LET d3 == (Min(dt, MAX_FRAME_DT) * speed) + remainder
        n  == d3 \div PHYSICS_DT
    IN  [steps |-> n, remainder |-> d3 - (n * PHYSICS_DT), dt |-> d3]

\* update(dt), lines 1020-1028: [steps, remainder, dt] for a frame delta dt
FrameSteps(dt, speed, remainder) ==
    LET d1 == Min(dt, MAX_FRAME_DT)
        d2 == d1 * speed
        d3 == d2 + remainder
        n  == d3 \div PHYSICS_DT
    IN  [steps |-> n, remainder |-> d3 - (n * PHYSICS_DT), dt |-> PHYSICS_DT * n]

RECURSIVE FirstSimulated(_, _)
\* the loop that picks m_simulated_actor when there is no player actor
FirstSimulated(S, t) ==
    IF t >= S.m_free_actor_slot THEN NONE
    ELSE IF S.m_actors[t] # NULL /\ S.m_actors[t].ar_sim_state = LOCAL_SIMULATED THEN t
    ELSE FirstSimulated(S, t + 1)

\* update(dt) from the line after SyncWithSimThread on.  frame names the
\* task that RunTask creates; replay is the answer of replayStep().
UpdateTail(dt, frame, replay, waited) ==
    LET S1 == UpdateSleepingState(Cur, dt)
        \* m_simulated_actor
        sa == IF S1.m_player_actor = NONE THEN FirstSimulated(S1, 0)
              ELSE S1.m_player_actor
        run == sa >= 0 /\ sa < S1.m_free_actor_slot /\ ~replay
    IN  /\ Commit(S1)
        /\ pend' = NoPend
        /\ last_op' = Returned("other", 0, waited)
        /\ IF run /\ sim_thread_pool
           THEN /\ m_sim_task' = frame
                /\ sim_queue' = Append(sim_queue, frame)
                /\ sim' = IF sim_queue = <<>> THEN SimStart ELSE sim
                /\ pc' = "idle"
           ELSE IF run
           THEN /\ sim' = SimStart
                /\ pc' = "UpdatePhysicsSimulation"
                /\ UNCHANGED <<m_sim_task, sim_queue>>
           ELSE /\ pc' = "idle"
                /\ UNCHANGED taskvars

update(dt, replay) ==
    /\ pc = "idle"
    /\ m_physics_frames < MaxFrames
    /\ LET f == FrameSteps(dt, m_simulation_speed, m_dt_remainder)
       IN  /\ m_physics_frames' = m_physics_frames + 1
           /\ m_physics_steps' = f.steps
           /\ m_dt_remainder' = f.remainder
           /\ mrTime' = mrTime + f.dt
           /\ dt_log' = Append(dt_log, dt)
           /\ steps_log' = Append(steps_log, f.steps)
           /\ UNCHANGED m_simulation_speed
           /\ IF SyncWithSimThread
              THEN UpdateTail(f.dt, m_physics_frames + 1, replay, FALSE)
              ELSE /\ Block("update", IF replay THEN 1 ELSE 0)
                   /\ UNCHANGED <<regvars, taskvars>>
    /\ UNCHANGED <<poolvars, allocvars>>

ResumeUpdate ==
    /\ pc = "join"
    /\ pend.op = "update"
    /\ SyncWithSimThread
    /\ UpdateTail(PHYSICS_DT * m_physics_steps, m_physics_frames, pend.arg = 1, TRUE)
    /\ UNCHANGED <<schedvars, poolvars, allocvars>>

prepareShutdown ==
    /\ pc = "idle"
    /\ IF SyncWithSimThread
       THEN Return("other", NONE, 0, FALSE)
       ELSE Block("prepareShutdown", NONE)
    /\ UNCHANGED <<regvars, schedvars, taskvars, poolvars, allocvars>>

ResumePrepareShutdown ==
    /\ pc = "join"
    /\ pend.op = "prepareShutdown"
    /\ SyncWithSimThread
    /\ Return("other", NONE, 0, TRUE)
    /\ UNCHANGED <<regvars, schedvars, taskvars, poolvars, allocvars>>

\* ~ActorManager from the line after SyncWithSimThread on.  The manager is
\* gone afterwards: the model keeps one state for it, its fields as the
\* constructor left them.
Destroyed(waited) ==
    /\ pc' = "destroyed"
    /\ pend' = NoPend
    /\ last_op' = Returned("other", 0, waited)
    /\ m_actors' = [t \in Slots |-> NULL]
    /\ m_free_actor_slot' = 0
    /\ m_player_actor' = NONE
    /\ m_prev_player_actor' = NONE
    /\ m_forced_active' = FALSE
    /\ live' = {}
    /\ notified' = [prev |-> NONE, cur |-> NONE]
    /\ m_dt_remainder' = 0
    /\ m_physics_steps' = 2000
    /\ m_physics_frames' = 0
    /\ mrTime' = 0
    /\ dt_log' = <<>>
    /\ steps_log' = <<>>
    /\ m_sim_task' = 0
    /\ alloc_count' = [t \in Slots |-> 0]
    /\ last_alloc' = 0 - 2
    /\ slot_read' = {}
    /\ UNCHANGED <<m_simulation_speed, sim_queue, sim, poolvars>>

\* ~ActorManager
Destroy ==
    /\ pc = "idle"
    /\ IF SyncWithSimThread
       THEN Destroyed(FALSE)
       ELSE /\ Block("~ActorManager", NONE)
            /\ UNCHANGED <<regvars, schedvars, taskvars, poolvars, allocvars>>

ResumeDestroy ==
    /\ pc = "join"
    /\ pend.op = "~ActorManager"
    /\ SyncWithSimThread
    /\ Destroyed(TRUE)

\* ------------------------------------------------ UpdatePhysicsSimulation
\* One invocation runs at a time: on the worker of m_sim_thread_pool for
\* the task at the head of its queue, or on the caller thread inside
\* update() when there is no m_sim_thread_pool.  It reads m_actors,
\* m_free_actor_slot and m_physics_steps as they are when it gets there.

\* Whether the actor takes part in the substep is decided by the actor's
\* calcForcesEulerPrepare (Beam.cpp): actors that are not simulated do not.
calcForcesEulerPrepare(a) == a.ar_sim_state = LOCAL_SIMULATED

\* the preUpdatePhysics loop (lines 1157-1162)
SimPreUpdate ==
    /\ sim.pc = "pre"
    /\ sim' = [pc |-> "loop", i |-> 0]
    /\ UNCHANGED <<regvars, schedvars, m_sim_task, sim_queue, poolvars, callvars, allocvars>>

\* one iteration of "for (i = 0; i < m_physics_steps; i++)"
SimSubstep ==
    /\ sim.pc = "loop"
    /\ sim.i < m_physics_steps
    /\ m_actors' = [t \in Slots |->
                      IF t < m_free_actor_slot /\ m_actors[t] # NULL
                      THEN [m_actors[t] EXCEPT
                              !.ar_update_physics = calcForcesEulerPrepare(m_actors[t])]
                      ELSE m_actors[t]]
    /\ sim' = [sim EXCEPT !.i = @ + 1]
    /\ UNCHANGED <<m_free_actor_slot, m_player_actor, m_prev_player_actor, m_forced_active,
                   live, notified>>
    /\ UNCHANGED <<schedvars, m_sim_task, sim_queue, poolvars, callvars, allocvars>>

\* the loop has ended: the postUpdatePhysics loop (lines 1292-1299), and
\* the invocation returns
SimPostUpdate ==
    /\ sim.pc = "loop"
    /\ ~(sim.i < m_physics_steps)
    /\ IF pc = "UpdatePhysicsSimulation"
       THEN /\ pc' = "idle"
            /\ sim' = SimIdle
            /\ UNCHANGED <<sim_queue, pend, last_op>>
       ELSE /\ sim_queue' = Tail(sim_queue)
            /\ sim' = IF Tail(sim_queue) # <<>> THEN SimStart ELSE SimIdle
            /\ UNCHANGED callvars
    /\ UNCHANGED <<regvars, schedvars, m_sim_task, poolvars, allocvars>>

SimStep == SimPreUpdate \/ SimSubstep \/ SimPostUpdate

\* ------------------------------------------------------ the specification
\* Frame deltas of the registry model, in time units.
DtInputs == {0, 5}

Regs == [origin_sourceid : RegSources, origin_streamid : StreamIds, def : RemoteDefs]

\* ActorManager::ActorManager
Init ==
    /\ m_actors = [t \in Slots |-> NULL]
    /\ m_free_actor_slot = 0
    /\ m_player_actor = NONE
    /\ m_prev_player_actor = NONE
    /\ m_forced_active = FALSE
    /\ m_dt_remainder = 0
    /\ m_physics_steps = 2000
    /\ m_physics_frames = 0
    /\ m_simulation_speed = 1
    /\ mrTime = 0
    /\ dt_log = <<>>
    /\ steps_log = <<>>
    /\ sim_thread_pool \in BOOLEAN
    /\ NoDispatch
    /\ m_sim_task = 0
    /\ sim_queue = <<>>
    /\ sim = SimIdle
    /\ pc = "idle"
    /\ pend = NoPend
    /\ live = {}
    /\ notified = [prev |-> NONE, cur |-> NONE]
    /\ alloc_count = [t \in Slots |-> 0]
    /\ last_alloc = 0 - 2
    /\ slot_read = {}
    /\ last_op = Returned("ActorManager", 0, FALSE)

Next ==
    \/ \E def \in SpawnDefs : CreateLocalRigInstance(def)
    \/ \E reg \in Regs, loaded \in BOOLEAN : CreateRemoteInstance(reg, loaded)
    \/ \E t \in Slots : DeleteTruck(t)
    \/ \E truck \in (0 - 1) .. (MAX_TRUCKS - 1) : removeTruck(truck)
    \/ \E sourceid \in Sources : RemoveStreamSource(sourceid)
    \/ CleanUpAllTrucks
    \/ \E new_truck \in {NONE} \cup Slots : setCurrentTruck(new_truck)
    \/ \E dt \in DtInputs, replay \in BOOLEAN : update(dt, replay)
    \/ prepareShutdown
    \/ Destroy
    \/ ResumeDeleteTruck
    \/ ResumeRemoveStreamSource
    \/ ResumeUpdate
    \/ ResumePrepareShutdown
    \/ ResumeDestroy
    \/ SimPreUpdate
    \/ SimSubstep
    \/ SimPostUpdate

Spec == Init /\ [][Next]_vars

\* ------------------------------------------- the box lookup of the registry
RECURSIVE FindTruckInsideBoxLoop_First(_, _, _, _)
\* variant: the loop that returns the first actor found inside the box
FindTruckInsideBoxLoop_First(S, inside, t, id) ==
    IF t >= S.m_free_actor_slot THEN id
    ELSE IF S.m_actors[t] = NULL
    THEN FindTruckInsideBoxLoop_First(S, inside, t + 1, id)
    ELSE IF t \in inside THEN t
    ELSE FindTruckInsideBoxLoop_First(S, inside, t + 1, id)

RECURSIVE FindTruckInsideBoxLoop(_, _, _, _)
\* the for loop of FindTruckInsideBox from index t on, with the local id;
\* inside holds the actors for which collisions->isInside answers true
FindTruckInsideBoxLoop(S, inside, t, id) ==
    IF t >= S.m_free_actor_slot THEN id
    ELSE IF S.m_actors[t] = NULL
    THEN FindTruckInsideBoxLoop(S, inside, t + 1, id)
    ELSE IF t \in inside
    THEN IF id = NONE
         THEN FindTruckInsideBoxLoop(S, inside, t + 1, t)
         ELSE NONE
    ELSE FindTruckInsideBoxLoop(S, inside, t + 1, id)

\* FindTruckInsideBox(collisions, inst, box); what it returned is kept
\* together with the answers of isInside.
FindTruckInsideBox(inside) ==
    /\ pc = "idle"
    /\ pc' = "idle"
    /\ pend' = NoPend
    /\ last_op' = [op |-> "FindTruckInsideBox",
                   ret |-> FindTruckInsideBoxLoop(Cur, inside, 0, NONE),
                   waited |-> FALSE,
                   inside |-> inside]
    /\ UNCHANGED <<regvars, schedvars, taskvars, poolvars, allocvars>>

\* ------------------------------------------------- the wake propagation
\* Places an actor can be at: its bounding box and its predicted bounding
\* box, with the collision boxes (none: the bounding box counts).  The
\* predicted boxes of places 0 and 1 overlap, and those of 1 and 2; those
\* of 0 and 2 do not; place 3 is far from all.
Places ==
    << [bb |-> Box(0, 10), pbb |-> Box(0, 12), cbs |-> <<>>, pcbs |-> <<>>],
       [bb |-> Box(14, 24), pbb |-> Box(11, 26), cbs |-> <<>>, pcbs |-> <<>>],
       [bb |-> Box(28, 38), pbb |-> Box(25, 40),
        cbs |-> <<Box(28, 30), Box(36, 38)>>, pcbs |-> <<Box(25, 27), Box(38, 40)>>],
       [bb |-> Box(100, 110), pbb |-> Box(100, 112), cbs |-> <<>>, pcbs |-> <<>>] >>

\* An actor of slot t at place k: simulated and moving with some time on
\* its sleep timer, or asleep and still.
ActorAt(t, k, st) ==
    [NewActor(t, ActorDef(st, st = LOCAL_SIMULATED, Places[k].bb, Places[k].pbb,
                          Places[k].cbs, Places[k].pcbs), FALSE)
       EXCEPT !.ar_sleep_counter = IF st = LOCAL_SIMULATED THEN 50 ELSE SLEEP_THRESHOLD]

WakeActors(t) ==
    {NULL, ActorAt(t, 1, LOCAL_SIMULATED)}
      \cup {ActorAt(t, k, LOCAL_SLEEPING) : k \in 2 .. Len(Places)}

\* A manager without m_sim_thread_pool whose table has been filled and
\* where setCurrentTruck has selected an actor, or nobody.
WakeInit ==
    /\ m_actors \in [Slots -> UNION {WakeActors(t) : t \in Slots}]
    /\ \A t \in Slots : m_actors[t] \in WakeActors(t)
    /\ m_free_actor_slot = MAX_TRUCKS
    /\ m_player_actor \in {NONE} \cup {t \in Slots : m_actors[t] # NULL}
    /\ m_prev_player_actor = NONE
    /\ m_forced_active = FALSE
    /\ m_dt_remainder = 0
    /\ m_physics_steps = 2000
    /\ m_physics_frames = 0
    /\ m_simulation_speed = 1
    /\ mrTime = 0
    /\ dt_log = <<>>
    /\ steps_log = <<>>
    /\ sim_thread_pool = FALSE
    /\ NoDispatch
    /\ m_sim_task = 0
    /\ sim_queue = <<>>
    /\ sim = SimIdle
    /\ pc = "idle"
    /\ pend = NoPend
    /\ live = {t \in Slots : m_actors[t] # NULL}
    /\ notified = [prev |-> NONE, cur |-> m_player_actor]
    /\ alloc_count = [t \in Slots |-> 1]
    /\ last_alloc = MAX_TRUCKS - 1
    /\ slot_read = {}
    /\ last_op = Returned("other", 0, FALSE)

WakeNext ==
    \/ \E dt \in DtInputs, replay \in BOOLEAN : update(dt, replay)
    \/ SimPreUpdate
    \/ SimSubstep
    \/ SimPostUpdate

WakeSpec == WakeInit /\ [][WakeNext]_vars

\* The box lookup on its own: every filled table, every answer of isInside.
FindNext == \E inside \in SUBSET Slots : FindTruckInsideBox(inside)

FindSpec == WakeInit /\ [][FindNext]_vars

\* ------------------------------------------------ removeTruck, traced
\* What a read of m_actors[MAX_TRUCKS], one past the end of the array, can
\* yield: a null word, or a word that is taken for an Actor* whose
\* ar_sim_state and ar_instance_id are whatever lies there.
OobValues ==
    {NULL} \cup [ar_sim_state : {LOCAL_SIMULATED, NETWORKED_OK}, ar_instance_id : Slots]

\* The arguments removeTruck is called with: any int; -1 .. MAX_TRUCKS
\* covers below, inside, at and above the high-water mark.
TruckArgs == (0 - 1) .. MAX_TRUCKS

\* removeTruck(truck), the indices at which it reads m_actors recorded
removeTruckTraced(truck, oob) ==
    /\ pc = "idle"
    /\ removeTruckBody(truck, oob)
    /\ slot_read' = removeTruckReads(truck)
    /\ UNCHANGED <<schedvars, taskvars, poolvars, alloc_count, last_alloc>>

\* RemoveActorByCollisionBox(collisions, inst, box):
\* removeTruck(FindTruckInsideBox(collisions, inst, box))
RemoveActorByCollisionBox(inside) ==
    /\ pc = "idle"
    /\ removeTruckTraced(FindTruckInsideBoxLoop(Cur, inside, 0, NONE), NULL)

\* A manager on which actors are spawned and removed by index.
RemoveNext ==
    \/ \E def \in SpawnDefs : CreateLocalRigInstance(def)
    \/ \E reg \in Regs, loaded \in BOOLEAN : CreateRemoteInstance(reg, loaded)
    \/ \E inside \in SUBSET Slots : RemoveActorByCollisionBox(inside)
    \/ \E truck \in TruckArgs, oob \in OobValues : removeTruckTraced(truck, oob)

RemoveSpec == Init /\ [][RemoveNext]_vars

\* ------------------------------------------------------ the sleep timers
\* An actor of slot t at place k that is simulated, with c on its sleep
\* timer, moving (squared speed above 0.01) or still.
TimedActor(t, k, c, mv) ==
    [NewActor(t, ActorDef(LOCAL_SIMULATED, mv, Places[k].bb, Places[k].pbb,
                          Places[k].cbs, Places[k].pcbs), FALSE)
       EXCEPT !.ar_sleep_counter = c]

\* Two and one substep short of the threshold.
NearThreshold == {SLEEP_THRESHOLD - (2 * PHYSICS_DT), SLEEP_THRESHOLD - PHYSICS_DT}

SleepActors(t) ==
    {NULL, TimedActor(t, 1, 0, TRUE), TimedActor(t, 2, SLEEP_THRESHOLD - PHYSICS_DT, FALSE)}
      \cup {TimedActor(t, 4, c, FALSE) : c \in NearThreshold}

\* A manager without m_sim_thread_pool that has run for a while: simulated
\* actors whose sleep timers are close to the threshold, a player actor
\* selected or nobody, the forced-active flag set or not.
SleepInit ==
    /\ m_actors \in [Slots -> UNION {SleepActors(t) : t \in Slots}]
    /\ \A t \in Slots : m_actors[t] \in SleepActors(t)
    /\ m_free_actor_slot = MAX_TRUCKS
    /\ m_player_actor \in {NONE} \cup {t \in Slots : m_actors[t] # NULL}
    /\ m_prev_player_actor = NONE
    /\ m_forced_active \in BOOLEAN
    /\ m_dt_remainder = 0
    /\ m_physics_steps = 2000
    /\ m_physics_frames = 0
    /\ m_simulation_speed = 1
    /\ mrTime = 0
    /\ dt_log = <<>>
    /\ steps_log = <<>>
    /\ sim_thread_pool = FALSE
    /\ NoDispatch
    /\ m_sim_task = 0
    /\ sim_queue = <<>>
    /\ sim = SimIdle
    /\ pc = "idle"
    /\ pend = NoPend
    /\ live = {t \in Slots : m_actors[t] # NULL}
    /\ notified = [prev |-> NONE, cur |-> m_player_actor]
    /\ alloc_count = [t \in Slots |-> 1]
    /\ last_alloc = MAX_TRUCKS - 1
    /\ slot_read = {}
    /\ last_op = Returned("other", 0, FALSE)

\* The physics of a simulated actor takes its speed above or below the
\* threshold of the sleep timers (getVelocity().squaredLength() > 0.01f).
VelocityChanges(t) ==
    /\ pc = "idle"
    /\ m_actors[t] # NULL
    /\ m_actors[t].ar_sim_state = LOCAL_SIMULATED
    /\ m_actors' = [m_actors EXCEPT ![t].moving = ~@]
    /\ pend' = NoPend
    /\ last_op' = Returned("other", 0, FALSE)
    /\ UNCHANGED <<m_free_actor_slot, m_player_actor, m_prev_player_actor,
                   m_forced_active, live, notified, pc,
                   schedvars, taskvars, poolvars, allocvars>>

SleepDts == {PHYSICS_DT, 2 * PHYSICS_DT}

SleepNext ==
    \/ \E dt \in SleepDts : update(dt, FALSE)
    \/ \E t \in Slots : VelocityChanges(t)
    \/ SimPreUpdate
    \/ SimSubstep
    \/ SimPostUpdate

SleepSpec == SleepInit /\ [][SleepNext]_vars

\* --------------------------------------- networked actors in the table
\* A manager without m_sim_thread_pool and without gEnv->threadPool whose
\* table has been filled with the actors of m_actors, a local actor or
\* nobody selected by setCurrentTruck: all fields but m_actors and
\* m_forced_active.
FilledManager ==
    /\ m_free_actor_slot = MAX_TRUCKS
    /\ m_player_actor \in {NONE} \cup {t \in Slots : /\ m_actors[t] # NULL
                                                     /\ m_actors[t].ar_sim_state # NETWORKED_OK}
    /\ m_prev_player_actor = NONE
    /\ m_dt_remainder = 0
    /\ m_physics_steps = 2000
    /\ m_physics_frames = 0
    /\ m_simulation_speed = 1
    /\ mrTime = 0
    /\ dt_log = <<>>
    /\ steps_log = <<>>
    /\ sim_thread_pool = FALSE
    /\ NoDispatch
    /\ m_sim_task = 0
    /\ sim_queue = <<>>
    /\ sim = SimIdle
    /\ pc = "idle"
    /\ pend = NoPend
    /\ live = {t \in Slots : m_actors[t] # NULL}
    /\ notified = [prev |-> NONE, cur |-> m_player_actor]
    /\ alloc_count = [t \in Slots |-> 1]
    /\ last_alloc = MAX_TRUCKS - 1
    /\ slot_read = {}
    /\ last_op = Returned("other", 0, FALSE)

\* The actor of a remote player in slot t at place k, as
\* CreateRemoteInstance stores it.
NetActorAt(t, k) ==
    [NewActor(t, ActorDef(LOCAL_SIMULATED, TRUE, Places[k].bb, Places[k].pbb,
                          Places[k].cbs, Places[k].pcbs), TRUE)
       EXCEPT !.ar_net_source_id = 1, !.ar_net_stream_id = t]

NetActors(t) ==
    {NULL, ActorAt(t, 1, LOCAL_SIMULATED), NetActorAt(t, 1), NetActorAt(t, 2),
     ActorAt(t, 2, LOCAL_SLEEPING), ActorAt(t, 3, LOCAL_SLEEPING)}

NetInit ==
    /\ m_actors \in [Slots -> UNION {NetActors(t) : t \in Slots}]
    /\ \A t \in Slots : m_actors[t] \in NetActors(t)
    /\ m_forced_active = FALSE
    /\ FilledManager

NetNext ==
    \/ \E new_truck \in {NONE} \cup Slots : setCurrentTruck(new_truck)
    \/ \E dt \in DtInputs : update(dt, FALSE)
    \/ SimPreUpdate
    \/ SimSubstep
    \/ SimPostUpdate

NetSpec == NetInit /\ [][NetNext]_vars

\* ------------------------------------------------ the forced-active flag
\* sendAllTrucksSleeping()
sendAllTrucksSleeping ==
    /\ pc = "idle"
    /\ m_forced_active' = FALSE
    /\ m_actors' = [t \in Slots |->
                      IF t < m_free_actor_slot /\ m_actors[t] # NULL
                         /\ m_actors[t].ar_sim_state = LOCAL_SIMULATED
                      THEN [m_actors[t] EXCEPT !.ar_sim_state = LOCAL_SLEEPING]
                      ELSE m_actors[t]]
    /\ pend' = NoPend
    /\ last_op' = Returned("sendAllTrucksSleeping", 0, FALSE)
    /\ UNCHANGED <<m_free_actor_slot, m_player_actor, m_prev_player_actor,
                   live, notified, pc,
                   schedvars, taskvars, poolvars, allocvars>>

ForceActors(t) ==
    {NULL, TimedActor(t, 1, 0, TRUE), TimedActor(t, 4, SLEEP_THRESHOLD - PHYSICS_DT, FALSE)}

\* A manager that has run for a while, the forced-active flag set or not.
ForceInit ==
    /\ m_actors \in [Slots -> UNION {ForceActors(t) : t \in Slots}]
    /\ \A t \in Slots : m_actors[t] \in ForceActors(t)
    /\ m_forced_active \in BOOLEAN
    /\ FilledManager

ForceNext ==
    \/ \E dt \in SleepDts : update(dt, FALSE)
    \/ \E new_truck \in {NONE} \cup Slots : setCurrentTruck(new_truck)
    \/ sendAllTrucksSleeping
    \/ SimPreUpdate
    \/ SimSubstep
    \/ SimPostUpdate

ForceSpec == ForceInit /\ [][ForceNext]_vars

\* ------------------------------------- the substeps on gEnv->threadPool
\* What the operations of an actor do to its nodes is decided by Actor and
\* the collision code.  Each reads and writes the nodes of its own actor;
\* the inter-actor collision reads the positions of the other actors.
\* Positions and forces are numbers modulo NodeValues.
calcForcesEulerCompute(b, i) ==
    [b EXCEPT !.force = ((2 * b.force) + b.pos + i + 1) % NodeValues]

intraTruckCollisions(b) ==
    [b EXCEPT !.force = ((3 * b.force) + b.pos) % NodeValues]

calcForcesEulerFinal(b) ==
    [b EXCEPT !.pos = (b.pos + b.force) % NodeValues]

\* InterPointCD()->update(m_actors[t], m_actors, m_free_actor_slot): the
\* other actors of the table whose position is within reach
InterPointCDUpdate(B, A, F, t) ==
    {u \in Slots \ {t} :
        /\ u < F
        /\ A[u] # NULL
        /\ B[u].pos - B[t].pos \in {0 - 1, 0, 1}}

RECURSIVE HitForce(_, _, _)
\* the force the actors of hits, from slot u on, put on the colliding actor
HitForce(B, hits, u) ==
    IF u >= MAX_TRUCKS THEN 0
    ELSE (IF u \in hits THEN B[u].pos + u + 1 ELSE 0) + HitForce(B, hits, u + 1)

interTruckCollisions(B, t, hits) ==
    [B[t] EXCEPT !.force = (B[t].force + HitForce(B, hits, 0)) % NodeValues]

\* The actor of slot t takes part in the substep (ar_update_physics).
Participates(t) ==
    t < m_free_actor_slot /\ m_actors[t] # NULL /\ m_actors[t].ar_update_physics

TaskRunningStates == {"compute", "intra", "update", "collide"}

WorkersBusy == Cardinality({t \in Slots : batch[t].at \in TaskRunningStates})

\* variant: Parallelize returns once every task of the batch has been
\* taken by a worker
BatchDone_NoBarrier == \A t \in Slots : batch[t].at # "queued"

\* Parallelize(tasks) returns: every task of the batch has run to its end
BatchDone == \A t \in Slots : batch[t].at \in {"none", "done"}

\* the loop that calls calcForcesEulerPrepare and builds the compute tasks,
\* up to the call of Parallelize (lines 1167-1195)
DispPrepare ==
    /\ threadPool > 0
    /\ sim.pc = "loop"
    /\ sim.i < m_physics_steps
    /\ phase = "prepare"
    /\ LET part == {t \in Slots : /\ t < m_free_actor_slot
                                  /\ m_actors[t] # NULL
                                  /\ calcForcesEulerPrepare(m_actors[t])}
       IN  /\ m_actors' = [t \in Slots |->
                             IF t < m_free_actor_slot /\ m_actors[t] # NULL
                             THEN [m_actors[t] EXCEPT !.ar_update_physics = t \in part]
                             ELSE m_actors[t]]
           /\ num_simulated_trucks' = Cardinality(part)
           /\ batch' = [t \in Slots |->
                          IF t \in part THEN [at |-> "queued", hits |-> {}] ELSE NoTask]
           /\ did' = [t \in Slots |->
                        IF t < m_free_actor_slot /\ m_actors[t] # NULL
                        THEN [i |-> sim.i, ops |-> <<"prepare">>]
                        ELSE did[t]]
    /\ phase' = "compute"
    /\ UNCHANGED <<m_free_actor_slot, m_player_actor, m_prev_player_actor, m_forced_active,
                   live, notified>>
    /\ UNCHANGED <<schedvars, taskvars, sim_thread_pool, threadPool, body, body0, cursor,
                   callvars, allocvars>>

\* a worker of the pool takes a task of the batch
TaskStart(t) ==
    /\ batch[t].at = "queued"
    /\ WorkersBusy < threadPool
    /\ batch' = [batch EXCEPT ![t].at = IF phase = "compute" THEN "compute" ELSE "update"]
    /\ UNCHANGED <<regvars, schedvars, taskvars, sim_thread_pool, threadPool, phase,
                   num_simulated_trucks, body, body0, cursor, did, callvars, allocvars>>

\* the compute task of actor t: calcForcesEulerCompute (line 1178)
TaskCompute(t) ==
    /\ batch[t].at = "compute"
    /\ body' = [body EXCEPT ![t] = calcForcesEulerCompute(@, sim.i)]
    /\ batch' = [batch EXCEPT ![t].at = IF ~body[t].ar_disable_self_collision
                                         THEN "intra" ELSE "done"]
    /\ did' = [did EXCEPT ![t].ops = Append(@, "compute")]
    /\ UNCHANGED <<regvars, schedvars, taskvars, sim_thread_pool, threadPool, phase,
                   num_simulated_trucks, body0, cursor, callvars, allocvars>>

\* the compute task of actor t: the intra-actor collisions (lines 1179-1191)
TaskIntra(t) ==
    /\ batch[t].at = "intra"
    /\ body' = [body EXCEPT ![t] = intraTruckCollisions(@)]
    /\ batch' = [batch EXCEPT ![t].at = "done"]
    /\ did' = [did EXCEPT ![t].ops = Append(@, "intra")]
    /\ UNCHANGED <<regvars, schedvars, taskvars, sim_thread_pool, threadPool, phase,
                   num_simulated_trucks, body0, cursor, callvars, allocvars>>

\* the end of a substep: the next iteration of the loop
NextSubstep ==
    /\ phase' = "prepare"
    /\ sim' = [sim EXCEPT !.i = @ + 1]
    /\ batch' = [t \in Slots |-> NoTask]
    /\ cursor' = 0
    /\ UNCHANGED <<m_sim_task, sim_queue>>

\* variant: the inter-actor collision phase whatever the number of actors
\* that took part
InterPhaseRuns_Always(n) == TRUE

\* "if (num_simulated_trucks > 1)"
InterPhaseRuns(n) == n > 1

\* Parallelize has returned: the calcForcesEulerFinal loop, and the loop
\* that builds the inter-actor collision tasks (lines 1198-1231)
DispFinal ==
    /\ phase = "compute"
    /\ BatchDone
    /\ body' = [t \in Slots |->
                  IF Participates(t) THEN calcForcesEulerFinal(body[t]) ELSE body[t]]
    /\ did' = [t \in Slots |->
                 IF Participates(t) THEN [did[t] EXCEPT !.ops = Append(@, "final")]
                 ELSE did[t]]
    /\ IF InterPhaseRuns(num_simulated_trucks)
       THEN /\ batch' = [t \in Slots |->
                           IF Participates(t) /\ ~body[t].ar_disable_actor2actor_collision
                           THEN [at |-> "queued", hits |-> {}]
                           ELSE NoTask]
            /\ phase' = "inter"
            /\ UNCHANGED <<taskvars, cursor>>
       ELSE NextSubstep
    /\ UNCHANGED <<regvars, schedvars, sim_thread_pool, threadPool,
                   num_simulated_trucks, body0, callvars, allocvars>>

\* the inter-actor collision task of actor t: InterPointCD()->update
\* (line 1212)
TaskInterUpdate(t) ==
    /\ batch[t].at = "update"
    /\ LET hits == InterPointCDUpdate(body, m_actors, m_free_actor_slot, t)
       IN  /\ body' = [body EXCEPT ![t].ar_collision_relevant = hits # {}]
           /\ batch' = [batch EXCEPT ![t] = [at |-> IF hits # {} THEN "collide" ELSE "done",
                                             hits |-> hits]]
    /\ did' = [did EXCEPT ![t].ops = Append(@, "update")]
    /\ UNCHANGED <<regvars, schedvars, taskvars, sim_thread_pool, threadPool, phase,
                   num_simulated_trucks, body0, cursor, callvars, allocvars>>

\* the inter-actor collision task of actor t: interTruckCollisions
\* (lines 1213-1225)
TaskInterCollide(t) ==
    /\ batch[t].at = "collide"
    /\ body' = [body EXCEPT ![t] = interTruckCollisions(body, t, batch[t].hits)]
    /\ batch' = [batch EXCEPT ![t].at = "done"]
    /\ did' = [did EXCEPT ![t].ops = Append(@, "collide")]
    /\ UNCHANGED <<regvars, schedvars, taskvars, sim_thread_pool, threadPool, phase,
                   num_simulated_trucks, body0, cursor, callvars, allocvars>>

\* the second Parallelize has returned (line 1231)
DispInterDone ==
    /\ phase = "inter"
    /\ BatchDone
    /\ NextSubstep
    /\ UNCHANGED <<regvars, schedvars, sim_thread_pool, threadPool,
                   num_simulated_trucks, body, body0, did, callvars, allocvars>>

\* the preUpdatePhysics loop (lines 1157-1162); the invocation starts
DispPreUpdate ==
    /\ sim.pc = "pre"
    /\ sim' = [pc |-> "loop", i |-> 0]
    /\ body0' = body
    /\ did' = [t \in Slots |-> NoOps]
    /\ cursor' = 0
    /\ UNCHANGED <<regvars, schedvars, m_sim_task, sim_queue, sim_thread_pool, threadPool,
                   phase, num_simulated_trucks, batch, body, callvars, allocvars>>

\* Without gEnv->threadPool: one iteration of the loop over the actors
\* (lines 1241-1262), which prepares the actor of slot cursor and, when it
\* takes part, runs its compute, its final and its intra-actor collisions
SerialActor ==
    /\ threadPool = 0
    /\ sim.pc = "loop"
    /\ sim.i < m_physics_steps
    /\ phase = "prepare"
    /\ cursor < m_free_actor_slot
    /\ LET t    == cursor
           occ  == m_actors[t] # NULL
           part == occ /\ calcForcesEulerPrepare(m_actors[t])
           self == part /\ ~body[t].ar_disable_self_collision
           b1   == calcForcesEulerFinal(calcForcesEulerCompute(body[t], sim.i))
       IN  /\ m_actors' = IF occ THEN [m_actors EXCEPT ![t].ar_update_physics = part]
                          ELSE m_actors
           /\ num_simulated_trucks' = (IF t = 0 THEN 0 ELSE num_simulated_trucks)
                                        + (IF part THEN 1 ELSE 0)
           /\ body' = IF self THEN [body EXCEPT ![t] = intraTruckCollisions(b1)]
                      ELSE IF part THEN [body EXCEPT ![t] = b1]
                      ELSE body
           /\ did' = IF ~occ THEN did
                     ELSE [did EXCEPT ![t] =
                             [i |-> sim.i,
                              ops |-> <<"prepare">>
                                        \o (IF part THEN <<"compute", "final">> ELSE <<>>)
                                        \o (IF self THEN <<"intra">> ELSE <<>>)]]
    /\ cursor' = cursor + 1
    /\ UNCHANGED <<m_free_actor_slot, m_player_actor, m_prev_player_actor, m_forced_active,
                   live, notified>>
    /\ UNCHANGED <<schedvars, taskvars, sim_thread_pool, threadPool, phase, batch, body0,
                   callvars, allocvars>>

\* Without gEnv->threadPool: the loop over the actors has ended (line 1264)
SerialActorsDone ==
    /\ threadPool = 0
    /\ sim.pc = "loop"
    /\ sim.i < m_physics_steps
    /\ phase = "prepare"
    /\ cursor >= m_free_actor_slot
    /\ IF InterPhaseRuns(num_simulated_trucks)
       THEN /\ phase' = "serial_inter"
            /\ cursor' = 0
            /\ UNCHANGED <<taskvars, batch>>
       ELSE NextSubstep
    /\ UNCHANGED <<regvars, schedvars, sim_thread_pool, threadPool,
                   num_simulated_trucks, body, body0, did, callvars, allocvars>>

\* Without gEnv->threadPool: one iteration of the inter-actor collision
\* loop (lines 1267-1287)
SerialInter ==
    /\ threadPool = 0
    /\ phase = "serial_inter"
    /\ cursor < m_free_actor_slot
    /\ LET t    == cursor
           runs == Participates(t) /\ ~body[t].ar_disable_actor2actor_collision
           hits == InterPointCDUpdate(body, m_actors, m_free_actor_slot, t)
           B1   == [body EXCEPT ![t].ar_collision_relevant = hits # {}]
       IN  /\ body' = IF ~runs THEN body
                      ELSE IF hits # {}
                      THEN [B1 EXCEPT ![t] = interTruckCollisions(B1, t, hits)]
                      ELSE B1
           /\ did' = IF ~runs THEN did
                     ELSE [did EXCEPT ![t].ops =
                             @ \o <<"update">> \o (IF hits # {} THEN <<"collide">> ELSE <<>>)]
    /\ cursor' = cursor + 1
    /\ UNCHANGED <<regvars, schedvars, taskvars, sim_thread_pool, threadPool, phase,
                   num_simulated_trucks, batch, body0, callvars, allocvars>>

\* Without gEnv->threadPool: the inter-actor collision loop has ended
SerialInterDone ==
    /\ threadPool = 0
    /\ phase = "serial_inter"
    /\ cursor >= m_free_actor_slot
    /\ NextSubstep
    /\ UNCHANGED <<regvars, schedvars, sim_thread_pool, threadPool,
                   num_simulated_trucks, body, body0, did, callvars, allocvars>>

\* the substep loop has ended: the postUpdatePhysics loop (lines
\* 1292-1299), and UpdatePhysicsSimulation returns into update()
DispPostUpdate ==
    /\ pc = "UpdatePhysicsSimulation"
    /\ sim.pc = "loop"
    /\ ~(sim.i < m_physics_steps)
    /\ did' = [t \in Slots |->
                 IF Participates(t) THEN [did[t] EXCEPT !.ops = Append(@, "post")]
                 ELSE did[t]]
    /\ pc' = "idle"
    /\ sim' = SimIdle
    /\ UNCHANGED <<regvars, schedvars, m_sim_task, sim_queue, sim_thread_pool, threadPool,
                   phase, num_simulated_trucks, batch, body, body0, cursor,
                   pend, last_op, allocvars>>

\* The nodes and collision flags an actor can have at the start of the
\* invocation.
Bodies ==
    { [pos |-> p, force |-> 0, ar_disable_self_collision |-> ~c,
       ar_disable_actor2actor_collision |-> ~c, ar_collision_relevant |-> FALSE] :
         p \in {1, 2}, c \in BOOLEAN }

\* Worker counts of gEnv->threadPool.
PoolSizes == {1, 2, 8}

\* update() on a manager without m_sim_thread_pool has planned the substeps
\* of its frame and calls UpdatePhysicsSimulation, gEnv->threadPool set or
\* not.
DispInit ==
    /\ m_actors \in [Slots -> UNION {{NULL, ActorAt(t, 1, LOCAL_SIMULATED),
                                      ActorAt(t, 4, LOCAL_SLEEPING)} : t \in Slots}]
    /\ \A t \in Slots :
          m_actors[t] \in {NULL, ActorAt(t, 1, LOCAL_SIMULATED), ActorAt(t, 4, LOCAL_SLEEPING)}
    /\ \E t \in Slots : m_actors[t] # NULL /\ m_actors[t].ar_sim_state = LOCAL_SIMULATED
    /\ m_free_actor_slot = MAX_TRUCKS
    /\ m_player_actor = NONE
    /\ m_prev_player_actor = NONE
    /\ m_forced_active = FALSE
    /\ m_dt_remainder = 0
    /\ m_physics_steps \in 1 .. MaxSubsteps
    /\ m_physics_frames = 1
    /\ m_simulation_speed = 1
    /\ mrTime = PHYSICS_DT * m_physics_steps
    /\ dt_log = <<PHYSICS_DT * m_physics_steps>>
    /\ steps_log = <<m_physics_steps>>
    /\ sim_thread_pool = FALSE
    /\ threadPool \in {0} \cup PoolSizes
    /\ phase = "prepare"
    /\ num_simulated_trucks = 0
    /\ cursor = 0
    /\ did = [t \in Slots |-> NoOps]
    /\ batch = [t \in Slots |-> NoTask]
    /\ body \in [Slots -> Bodies \cup {NoBody}]
    /\ \A t \in Slots : body[t] = NoBody <=> m_actors[t] = NULL
    /\ body0 = body
    /\ m_sim_task = 0
    /\ sim_queue = <<>>
    /\ sim = SimStart
    /\ pc = "UpdatePhysicsSimulation"
    /\ pend = NoPend
    /\ live = {t \in Slots : m_actors[t] # NULL}
    /\ notified = [prev |-> NONE, cur |-> NONE]
    /\ alloc_count = [t \in Slots |-> 1]
    /\ last_alloc = MAX_TRUCKS - 1
    /\ slot_read = {}
    /\ last_op = Returned("other", 0, FALSE)

DispNext ==
    \/ \E dt \in DtInputs : update(dt, FALSE)
    \/ DispPreUpdate
    \/ SerialActor
    \/ SerialActorsDone
    \/ SerialInter
    \/ SerialInterDone
    \/ DispPrepare
    \/ \E t \in Slots : TaskStart(t)
    \/ \E t \in Slots : TaskCompute(t)
    \/ \E t \in Slots : TaskIntra(t)
    \/ DispFinal
    \/ \E t \in Slots : TaskInterUpdate(t)
    \/ \E t \in Slots : TaskInterCollide(t)
    \/ DispInterDone
    \/ DispPostUpdate

DispSpec == DispInit /\ [][DispNext]_vars

\* ----------------------------------------- the frame scheduler on its own
\* Frame deltas given to update(): below, at and between multiples of
\* PHYSICS_DT, at and above 1/20 s, and 10 s.
SchedDts == {0, 2, 3, 5, 7, 8, 10, 500, 503, 600, 100000}

\* update() called frame after frame on a manager without actors.
SchedNext == \E dt \in SchedDts, replay \in BOOLEAN : update(dt, replay)

SchedSpec == Init /\ [][SchedNext]_vars

\* The manager without remote players: the spawns of local actors, the
\* operations that join the task, and the invocation.
FairNext ==
    \/ \E def \in SpawnDefs : CreateLocalRigInstance(def)
    \/ \E t \in Slots : DeleteTruck(t)
    \/ CleanUpAllTrucks
    \/ \E new_truck \in {NONE} \cup Slots : setCurrentTruck(new_truck)
    \/ \E dt \in DtInputs, replay \in BOOLEAN : update(dt, replay)
    \/ prepareShutdown
    \/ Destroy
    \/ ResumeDeleteTruck
    \/ ResumeUpdate
    \/ ResumePrepareShutdown
    \/ ResumeDestroy
    \/ SimPreUpdate
    \/ SimSubstep
    \/ SimPostUpdate

\* The worker thread of m_sim_thread_pool (or the caller thread inside
\* update) keeps running the invocation it has started.
FairSpec == Init /\ [][FairNext]_vars /\ WF_vars(SimStep)

\* ================================================================ claims
\* The slot table as a table of pointers: which actor each slot holds.
SlotTable == [t \in Slots |-> ActorPtr(m_actors[t])]

\* A task given to m_sim_thread_pool has not run to its end yet.
Outstanding == sim_queue # <<>>

SpawnOps == {"CreateLocalRigInstance", "CreateRemoteInstance"}

\* C1: while a dispatched UpdatePhysicsSimulation task has not completed, no
\* step (spawn, DeleteTruck, CleanUpAllTrucks) changes which actor a slot of
\* m_actors holds, nor m_free_actor_slot.
C1_TableFixedWhileTaskOutstanding ==
    [][Outstanding =>
         /\ SlotTable' = SlotTable
         /\ m_free_actor_slot' = m_free_actor_slot]_vars

\* C2: DeleteTruck clears a slot and destroys an actor only when no
\* background task is outstanding: a call made while one is running waits
\* for it first.
C2_DeleteTruckWaitsForTask ==
    [][\A id \in Slots :
         (/\ id \in live
          /\ id \notin live'
          /\ last_op'.op \in {"DeleteTruck"} \cup SpawnOps
          /\ pc' # "destroyed")
         => ~Outstanding]_vars

\* A DeleteTruck call that had to wait has cleared the actor's slot.
C2_Witness ==
    /\ last_op.op = "DeleteTruck"
    /\ last_op.waited
    /\ \E t \in Slots : t < m_free_actor_slot /\ m_actors[t] = NULL /\ t \notin live

\* C3: at most one frame-level background task is dispatched and not yet
\* completed.
C3_AtMostOneTaskOutstanding == Len(sim_queue) <= 1

\* The second frame's task is outstanding; update() waited for the first.
C3_Witness ==
    /\ sim_queue = <<2>>
    /\ m_sim_task = 2
    /\ last_op.waited

\* The task dispatched in frame id is in the pool and has not run to its end.
TaskRunning(id) == id \in SeqRange(sim_queue)

\* A step of the caller thread that gets past the SyncWithSimThread of
\* update, DeleteTruck, prepareShutdown or the destructor.
PastJoin ==
    /\ pc' # "join"
    /\ \/ \E dt \in DtInputs, replay \in BOOLEAN : update(dt, replay)
       \/ \E t \in Slots : m_actors[t] # NULL /\ DeleteTruck(t)
       \/ prepareShutdown
       \/ Destroy
       \/ ResumeUpdate
       \/ ResumeDeleteTruck
       \/ ResumePrepareShutdown
       \/ ResumeDestroy

FreeCandidates ==
    {t \in Slots : t >= m_free_actor_slot /\ m_actors[t] = NULL}

\* C5: GetFreeTruckSlot returns the lowest index at or above the high-water
\* mark whose slot is empty and sets the mark just past it; it returns -1
\* exactly when there is no such index.
C5_GetFreeTruckSlotLowest ==
    [][/\ (alloc_count' # alloc_count /\ pc' # "destroyed") =>
             /\ FreeCandidates # {}
             /\ last_alloc' \in FreeCandidates
             /\ \A t \in FreeCandidates : last_alloc' <= t
             /\ m_free_actor_slot' = last_alloc' + 1
       /\ (last_alloc' = NONE) =>
             /\ FreeCandidates = {}
             /\ m_free_actor_slot' = m_free_actor_slot]_vars

\* A spawn got index 1 while slot 0, below the mark, was empty.
C5_Witness ==
    /\ last_op.op \in SpawnOps
    /\ last_op.ret = 1
    /\ last_alloc = 1
    /\ m_free_actor_slot = 2
    /\ m_actors[0] = NULL
    /\ m_actors[1] # NULL

\* C6: the high-water mark never decreases, and no index is returned by
\* GetFreeTruckSlot twice.
C6_MarkMonotoneNoReuse ==
    [][pc' # "destroyed" =>
         /\ m_free_actor_slot' >= m_free_actor_slot
         /\ \A t \in Slots : alloc_count'[t] <= 1]_vars

\* After CleanUpAllTrucks emptied a table with two slots used, a spawn got
\* the third index.
C6_Witness ==
    /\ alloc_count = [t \in Slots |-> IF t <= 2 THEN 1 ELSE 0]
    /\ m_actors[0] = NULL
    /\ m_actors[1] = NULL
    /\ m_actors[2] # NULL
    /\ m_free_actor_slot = 3

\* C7: every slot is empty or holds one live actor whose ar_instance_id is
\* the slot's index; no actor is held by two slots.
C7_SlotHoldsOwnActor ==
    /\ \A t \in Slots :
         m_actors[t] # NULL =>
            /\ m_actors[t].ar_instance_id = t
            /\ m_actors[t].ar_instance_id \in live
    /\ \A t, u \in Slots :
         (t # u /\ m_actors[t] # NULL /\ m_actors[u] # NULL)
         => m_actors[t].ar_instance_id # m_actors[u].ar_instance_id

\* A local and a remote actor are in the table, next to a cleared slot.
C7_Witness ==
    /\ m_actors[0] = NULL
    /\ m_actors[1] # NULL
    /\ m_actors[2] # NULL
    /\ m_actors[1].ar_sim_state = NETWORKED_OK
    /\ m_actors[2].ar_sim_state # NETWORKED_OK
    /\ 0 \notin live

\* C8: CleanUpAllTrucks leaves every slot empty and nobody selected, and
\* leaves the high-water mark as it was.
C8_CleanUpAllTrucks ==
    [][CleanUpAllTrucks =>
         /\ \A t \in Slots : m_actors'[t] = NULL
         /\ live' = {}
         /\ m_player_actor' = NONE
         /\ m_free_actor_slot' = m_free_actor_slot]_vars

\* CleanUpAllTrucks ran on a full table whose player actor was selected.
C8_Witness ==
    /\ last_op.op = "CleanUpAllTrucks"
    /\ m_free_actor_slot = MAX_TRUCKS
    /\ \A t \in Slots : m_actors[t] = NULL
    /\ m_player_actor = NONE
    /\ notified.cur # NONE

\* C9: DeleteTruck of the player actor sets the selection to none and calls
\* ChangedCurrentVehicle with the actor still in its slot; after any
\* DeleteTruck the selection is not the deleted slot; DeleteTruck leaves the
\* high-water mark as it was.
C9_DeleteTruckClearsSelection ==
    [][\A id \in Slots :
         (/\ id \in live
          /\ id \notin live'
          /\ last_op'.op \in {"DeleteTruck"} \cup SpawnOps
          /\ pc' # "destroyed")
         => /\ m_player_actor' # id
            /\ m_free_actor_slot' = m_free_actor_slot
            /\ m_player_actor = id =>
                 /\ m_player_actor' = NONE
                 /\ notified' = [prev |-> id, cur |-> NONE]]_vars

\* The player actor was deleted while it was selected: the last
\* ChangedCurrentVehicle call named it as the actor that was left.
C9_Witness ==
    /\ last_op.op = "DeleteTruck"
    /\ m_player_actor = NONE
    /\ m_prev_player_actor >= 0
    /\ m_actors[m_prev_player_actor] = NULL
    /\ notified = [prev |-> m_prev_player_actor, cur |-> NONE]

\* C10: with the high-water mark at MAX_TRUCKS a local spawn returns the
\* null pointer and a remote spawn -1, and the slot table, the mark and the
\* selection stay as they were.
C10_SpawnFailsWhenFull ==
    [][(/\ m_free_actor_slot = MAX_TRUCKS
        /\ \/ \E def \in SpawnDefs : CreateLocalRigInstance(def)
           \/ \E reg \in Regs, loaded \in BOOLEAN : CreateRemoteInstance(reg, loaded))
       => /\ last_op'.op = "CreateLocalRigInstance" => last_op'.ret = 0
          /\ last_op'.op = "CreateRemoteInstance" => last_op'.ret = NONE
          /\ m_actors' = m_actors
          /\ m_free_actor_slot' = m_free_actor_slot
          /\ m_player_actor' = m_player_actor]_vars

\* A local spawn found no index (GetFreeTruckSlot returned -1) in a table
\* that has an empty slot below the mark.
C10_Witness ==
    /\ m_free_actor_slot = MAX_TRUCKS
    /\ last_alloc = NONE
    /\ last_op.op = "CreateLocalRigInstance"
    /\ last_op.ret = 0
    /\ \E t \in Slots : m_actors[t] = NULL

\* C11: no occupied slot holds an actor whose state is INVALID; a spawn
\* whose actor comes out INVALID deletes the actor, returns the failure
\* value (null pointer, -1) and leaves the slot it was given empty.
C11_NoInvalidActorResident ==
    /\ [](\A t \in Slots : m_actors[t] # NULL => m_actors[t].ar_sim_state # INVALID)
    /\ [][(\/ \E def \in SpawnDefs :
                def.sim_state = INVALID /\ CreateLocalRigInstance(def)
           \/ \E reg \in Regs :
                reg.def.sim_state = INVALID /\ CreateRemoteInstance(reg, TRUE)
           \/ pend.op \in SpawnOps /\ ResumeDeleteTruck)
          => /\ m_actors' = m_actors
             /\ pc' = "idle" =>
                  /\ live' = {t \in Slots : m_actors[t] # NULL}
                  /\ last_op'.op = "CreateLocalRigInstance" => last_op'.ret = 0
                  /\ last_op'.op = "CreateRemoteInstance" => last_op'.ret = NONE]_vars

\* A local spawn was given index 1, its actor came out INVALID, and the
\* spawn has returned the null pointer; slot 1 is empty.
C11_Witness ==
    /\ pc = "idle"
    /\ last_op.op = "CreateLocalRigInstance"
    /\ last_op.ret = 0
    /\ last_alloc = 1
    /\ m_free_actor_slot = 2
    /\ m_actors[1] = NULL
    /\ 1 \notin live
    /\ m_actors[0] # NULL

\* C12: a frame delta above 1/20 s, with speed 1 and no remainder carried,
\* gives floor((1/20) / PHYSICS_DT) = 100 substeps, not floor(dt / PHYSICS_DT).
C12_ClampedFrameDelta ==
    [][\A dt \in SchedDts, replay \in BOOLEAN :
         (/\ dt > MAX_FRAME_DT
          /\ m_simulation_speed = 1
          /\ m_dt_remainder = 0
          /\ update(dt, replay))
         => /\ m_physics_steps' = MAX_FRAME_DT \div PHYSICS_DT
            /\ m_physics_steps' = 100
            /\ dt >= MAX_FRAME_DT + PHYSICS_DT => m_physics_steps' # dt \div PHYSICS_DT]_vars

\* update(10.0) on a new manager has planned 100 substeps.
C12_Witness ==
    /\ dt_log = <<100000>>
    /\ steps_log = <<100>>
    /\ m_physics_steps = 100
    /\ m_dt_remainder = 0

\* The first two update calls of a manager: their deltas add up to k
\* substeps exactly.
SplitCase ==
    /\ Len(dt_log) = 2
    /\ m_simulation_speed = 1
    /\ (dt_log[1] + dt_log[2]) % PHYSICS_DT = 0

RECURSIVE SeqSum(_)
SeqSum(q) == IF q = <<>> THEN 0 ELSE Head(q) + SeqSum(Tail(q))

RunningFrame ==
    IF pc = "UpdatePhysicsSimulation" THEN m_physics_frames ELSE Head(sim_queue)

\* C15: update(0) with a remainder below PHYSICS_DT plans zero substeps, and
\* the UpdatePhysicsSimulation invocation of a frame that planned zero
\* substeps runs no substep (no prepare, compute, finalize or collision).
C15_ZeroStepsNoForceOps ==
    /\ [][\A replay \in BOOLEAN :
            (m_dt_remainder < PHYSICS_DT /\ m_simulation_speed = 1 /\ update(0, replay))
            => m_physics_steps' = 0]_vars
    /\ [][SimSubstep => steps_log[RunningFrame] > 0]_vars


RECURSIVE WakeClosure(_, _)
\* The actors of R together with every sleeping actor of the table A that a
\* chain of predicted-geometry overlaps through sleeping actors joins to R.
WakeClosure(A, R) ==
    LET N == {t \in Slots \ R :
                /\ A[t] # NULL
                /\ A[t].ar_sim_state = LOCAL_SLEEPING
                /\ \E j \in R : predictTruckIntersectionCollAABB(A, t, j, 10)}
    IN  IF N = {} THEN R ELSE WakeClosure(A, R \cup N)

\* An update call that got past the join and ran UpdateSleepingState.
SleepingStatePass ==
    /\ \/ \E dt \in DtInputs \cup {10}, replay \in BOOLEAN : update(dt, replay)
       \/ ResumeUpdate
    /\ pc' # "join"

\* C17: after one UpdateSleepingState pass with a LOCAL_SIMULATED player
\* actor, every actor that was LOCAL_SLEEPING and that a chain of
\* predicted-geometry overlaps through sleeping actors connects to the player
\* actor is LOCAL_SIMULATED with its sleep timer at zero, whatever slots the
\* actors of the chain occupy.
C17_WakePropagates ==
    [][(/\ SleepingStatePass
        /\ m_player_actor # NONE
        /\ m_actors[m_player_actor].ar_sim_state = LOCAL_SIMULATED)
       => \A t \in WakeClosure(m_actors, {m_player_actor}) \ {m_player_actor} :
             /\ m_actors'[t] # NULL
             /\ m_actors'[t].ar_sim_state = LOCAL_SIMULATED
             /\ m_actors'[t].ar_sleep_counter = 0]_vars

\* The player actor in the last slot, the actor next to it in slot 1 and the
\* actor that only the latter reaches in slot 0: one pass woke both.
C17_Witness ==
    /\ m_physics_frames = 1
    /\ m_player_actor = 2
    /\ m_actors[2] # NULL /\ m_actors[1] # NULL /\ m_actors[0] # NULL
    /\ m_actors[2].ar_bounding_box = Places[1].bb
    /\ m_actors[1].ar_bounding_box = Places[2].bb
    /\ m_actors[0].ar_bounding_box = Places[3].bb
    /\ ~predictTruckIntersectionCollAABB(m_actors, 0, 2, 10)
    /\ \A t \in {0, 1} :
          /\ m_actors[t].ar_sim_state = LOCAL_SIMULATED
          /\ m_actors[t].ar_sleep_counter = 0
          /\ ~m_actors[t].moving


\* The actors of the table that the last box lookup found inside the box.
BoxMatches ==
    {t \in last_op.inside : t < m_free_actor_slot /\ m_actors[t] # NULL}

\* C19 as stated: no actor inside the box yields "not found", exactly one
\* yields its index, two or more yield an outcome that is neither "not
\* found" nor the index of an actor inside the box.
C19_BoxLookupTriState_AsStated ==
    last_op.op = "FindTruckInsideBox" =>
        /\ BoxMatches = {} => last_op.ret = NONE
        /\ Cardinality(BoxMatches) = 1 => last_op.ret \in BoxMatches
        /\ Cardinality(BoxMatches) >= 2 =>
              (last_op.ret # NONE /\ last_op.ret \notin BoxMatches)

\* C19: no actor inside the box yields -1, exactly one yields its index, two
\* or more yield -1 again: never the index of an actor inside the box, and
\* the same value as "not found".
C19_BoxLookup ==
    last_op.op = "FindTruckInsideBox" =>
        /\ BoxMatches = {} => last_op.ret = NONE
        /\ Cardinality(BoxMatches) = 1 => last_op.ret \in BoxMatches
        /\ Cardinality(BoxMatches) >= 2 => last_op.ret = NONE

\* A lookup with the actors of slots 0 and 2 inside the box returned -1.
C19_Witness ==
    /\ last_op.op = "FindTruckInsideBox"
    /\ last_op.inside = {0, 2}
    /\ BoxMatches = {0, 2}
    /\ m_actors[1] # NULL
    /\ last_op.ret = NONE


\* The simulated time the update call of this step handed to
\* UpdateSleepingState.
PassDt == PHYSICS_DT * m_physics_steps'

\* No actor that is LOCAL_SIMULATED before or after the pass overlaps actor
\* t, in current geometry (scale 1.2) or in predicted geometry.
NotOverlappedByActive(t) ==
    \A u \in Slots \ {t} :
        (/\ m_actors[u] # NULL
         /\ \/ m_actors[u].ar_sim_state = LOCAL_SIMULATED
            \/ m_actors'[u].ar_sim_state = LOCAL_SIMULATED)
        => /\ ~truckIntersectionCollAABB(m_actors, t, u, 12)
           /\ ~predictTruckIntersectionCollAABB(m_actors, t, u, 10)

\* A LOCAL_SIMULATED actor that is not the player actor and is still.
StillNonPlayer(t) ==
    /\ t < m_free_actor_slot
    /\ m_actors[t] # NULL
    /\ t # m_player_actor
    /\ m_actors[t].ar_sim_state = LOCAL_SIMULATED
    /\ ~m_actors[t].moving

\* C16: with the forced-active flag unset, a LOCAL_SIMULATED actor that is
\* not the player actor, is still and is not overlapped by any active actor
\* becomes LOCAL_SLEEPING in the update whose time takes its sleep timer to
\* 10 s or beyond; in an update that leaves the timer below 10 s it stays
\* LOCAL_SIMULATED with the time of the update added to its timer.
C16_SleepsAtThreshold ==
    [][SleepingStatePass =>
        \A t \in Slots :
            (StillNonPlayer(t) /\ ~m_forced_active /\ NotOverlappedByActive(t)) =>
                LET c == m_actors[t].ar_sleep_counter + PassDt
                IN  /\ m_actors'[t] # NULL
                    /\ m_actors'[t].ar_sleep_counter = c
                    /\ m_actors'[t].ar_sim_state =
                          IF c >= SLEEP_THRESHOLD THEN LOCAL_SLEEPING
                          ELSE LOCAL_SIMULATED]_vars

\* The actor of slot 0, far from the moving player actor of slot 1, was two
\* substeps short of 10 s; the second update of one substep put it to sleep.
C16_Witness ==
    /\ pc = "idle"
    /\ dt_log = <<PHYSICS_DT, PHYSICS_DT>>
    /\ ~m_forced_active
    /\ m_player_actor = 1
    /\ m_actors[1] # NULL /\ m_actors[1].moving
    /\ m_actors[0] # NULL
    /\ m_actors[0].ar_bounding_box = Places[4].bb
    /\ m_actors[0].ar_sim_state = LOCAL_SLEEPING
    /\ m_actors[0].ar_sleep_counter = SLEEP_THRESHOLD
    /\ ~m_actors[0].moving

\* C20 as stated: an update in which a LOCAL_SIMULATED actor moves faster
\* than the threshold restarts that actor's accumulation of still time, so
\* that only 10 s of uninterrupted stillness put an actor to sleep.
C20_MovementRestartsTimer ==
    [][SleepingStatePass =>
        \A t \in Slots :
            (/\ ~m_forced_active
             /\ m_actors[t] # NULL
             /\ m_actors[t].ar_sim_state = LOCAL_SIMULATED
             /\ m_actors[t].moving)
            => (m_actors'[t] # NULL /\ m_actors'[t].ar_sleep_counter = 0)]_vars


\* The actors of the table that take part in a substep.
RefPart == {t \in Slots : /\ t < m_free_actor_slot
                          /\ m_actors[t] # NULL
                          /\ calcForcesEulerPrepare(m_actors[t])}

RECURSIVE RefComputeFrom(_, _, _)
\* the compute tasks of substep i run one after the other in slot order,
\* from slot t on
RefComputeFrom(B, i, t) ==
    IF t >= MAX_TRUCKS THEN B
    ELSE IF t \in RefPart
    THEN LET b1 == calcForcesEulerCompute(B[t], i)
             b2 == IF ~b1.ar_disable_self_collision THEN intraTruckCollisions(b1) ELSE b1
         IN  RefComputeFrom([B EXCEPT ![t] = b2], i, t + 1)
    ELSE RefComputeFrom(B, i, t + 1)

RECURSIVE RefFinalFrom(_, _)
RefFinalFrom(B, t) ==
    IF t >= MAX_TRUCKS THEN B
    ELSE IF t \in RefPart
    THEN RefFinalFrom([B EXCEPT ![t] = calcForcesEulerFinal(B[t])], t + 1)
    ELSE RefFinalFrom(B, t + 1)

RECURSIVE RefInterFrom(_, _)
\* the inter-actor collision tasks run one after the other in slot order
RefInterFrom(B, t) ==
    IF t >= MAX_TRUCKS THEN B
    ELSE IF t \in RefPart /\ ~B[t].ar_disable_actor2actor_collision
    THEN LET hits == InterPointCDUpdate(B, m_actors, m_free_actor_slot, t)
             B1 == [B EXCEPT ![t].ar_collision_relevant = hits # {}]
             B2 == IF hits # {}
                   THEN [B1 EXCEPT ![t] = interTruckCollisions(B1, t, hits)]
                   ELSE B1
         IN  RefInterFrom(B2, t + 1)
    ELSE RefInterFrom(B, t + 1)

RECURSIVE RefSubsteps(_, _, _)
\* substeps i .. n-1 with every batch run by one worker in slot order
RefSubsteps(B, i, n) ==
    IF i >= n THEN B
    ELSE LET B1 == RefFinalFrom(RefComputeFrom(B, i, 0), 0)
             B2 == IF Cardinality(RefPart) > 1 THEN RefInterFrom(B1, 0) ELSE B1
         IN  RefSubsteps(B2, i + 1, n)

\* C18: with gEnv->threadPool set, whatever its number of workers and in
\* whatever order and interleaving the tasks of a batch run, the actors'
\* nodes after every substep, and so after the N substeps of the
\* invocation, are those of the run that executes the tasks of each batch
\* one after the other in slot order: the final state is a function of the
\* initial state and the table alone.
C18_PoolSizeAndInterleavingIndependent ==
    /\ (threadPool > 0 /\ sim.pc = "loop" /\ phase = "prepare")
          => body = RefSubsteps(body0, 0, sim.i)
    /\ (threadPool > 0 /\ pc = "idle" /\ sim = SimIdle)
          => body = RefSubsteps(body0, 0, m_physics_steps)

\* Three simulated actors in reach of each other, two substeps on a pool of
\* two workers: the invocation has returned and the inter-actor collisions
\* have acted on the nodes.
C18_Witness ==
    /\ threadPool = 2
    /\ pc = "idle"
    /\ sim = SimIdle
    /\ m_physics_steps = MaxSubsteps
    /\ \A t \in Slots : m_actors[t] # NULL /\ m_actors[t].ar_update_physics
    /\ \A t \in Slots : ~body[t].ar_disable_actor2actor_collision
    /\ \E t \in Slots : body[t].ar_collision_relevant
    /\ body # body0


\* C21 as stated: after an UpdateSleepingState pass every actor that was
\* LOCAL_SLEEPING and whose predicted collision geometry overlaps that of a
\* moving LOCAL_SIMULATED actor is LOCAL_SIMULATED, whether or not the moving
\* actor is the player actor or connected to it.
C21_MovingActorWakesNeighbours ==
    [][SleepingStatePass =>
        \A t \in Slots :
            (/\ m_actors[t] # NULL
             /\ m_actors[t].ar_sim_state = LOCAL_SLEEPING
             /\ \E u \in Slots \ {t} :
                   /\ m_actors[u] # NULL
                   /\ m_actors[u].ar_sim_state = LOCAL_SIMULATED
                   /\ m_actors[u].moving
                   /\ predictTruckIntersectionCollAABB(m_actors, t, u, 10))
            => (m_actors'[t] # NULL /\ m_actors'[t].ar_sim_state = LOCAL_SIMULATED)]_vars


\* A step that ran UpdateSleepingState: an update call past its join, or
\* setCurrentTruck.
AnySleepingStatePass ==
    \/ SleepingStatePass
    \/ \E new_truck \in {NONE} \cup Slots : setCurrentTruck(new_truck)

\* C22: an UpdateSleepingState pass leaves every NETWORKED_OK actor as it
\* is, state and sleep timer, and leaves asleep with its timer every
\* LOCAL_SLEEPING actor other than the player actor all of whose
\* predicted-geometry overlaps are with NETWORKED_OK actors: the wake does
\* not travel through a networked actor.
C22_NetworkedActorsDoNotChain ==
    [][AnySleepingStatePass =>
        \A t \in Slots :
            m_actors[t] # NULL =>
                /\ m_actors[t].ar_sim_state = NETWORKED_OK => m_actors'[t] = m_actors[t]
                /\ (/\ m_actors[t].ar_sim_state = LOCAL_SLEEPING
                    /\ t # m_player_actor'
                    /\ \A u \in Slots \ {t} :
                          (m_actors[u] # NULL
                             /\ predictTruckIntersectionCollAABB(m_actors, t, u, 10))
                          => m_actors[u].ar_sim_state = NETWORKED_OK)
                   => m_actors'[t] = m_actors[t]]_vars

\* The player actor of slot 0, simulated, overlaps the networked actor of
\* slot 1, which overlaps the sleeping actor of slot 2: after an update the
\* networked actor is as it was and the sleeping one still asleep.
C22_Witness ==
    /\ m_physics_frames = 1
    /\ pc = "idle"
    /\ m_player_actor = 0
    /\ m_actors[0] # NULL /\ m_actors[0].ar_sim_state = LOCAL_SIMULATED
    /\ m_actors[1] = NetActorAt(1, 2)
    /\ m_actors[2] = ActorAt(2, 3, LOCAL_SLEEPING)
    /\ predictTruckIntersectionCollAABB(m_actors, 0, 1, 10)
    /\ predictTruckIntersectionCollAABB(m_actors, 1, 2, 10)


\* C23: while m_forced_active is set, an UpdateSleepingState pass moves no
\* actor from LOCAL_SIMULATED to LOCAL_SLEEPING and advances no sleep timer
\* (a timer keeps its value or is reset to zero by a wake); the flag, once
\* set, is cleared by sendAllTrucksSleeping only, which also moves every
\* LOCAL_SIMULATED actor to LOCAL_SLEEPING.
C23_ForcedActive ==
    /\ [][(AnySleepingStatePass /\ m_forced_active) =>
            \A t \in Slots :
                m_actors[t] # NULL =>
                    /\ m_actors'[t] # NULL
                    /\ ~(/\ m_actors[t].ar_sim_state = LOCAL_SIMULATED
                         /\ m_actors'[t].ar_sim_state = LOCAL_SLEEPING)
                    /\ m_actors'[t].ar_sleep_counter
                          \in {0, m_actors[t].ar_sleep_counter}]_vars
    /\ [][(m_forced_active /\ ~m_forced_active') => sendAllTrucksSleeping]_vars
    /\ [][sendAllTrucksSleeping =>
            /\ ~m_forced_active'
            /\ \A t \in Slots :
                  (m_actors[t] # NULL /\ m_actors[t].ar_sim_state = LOCAL_SIMULATED)
                  => m_actors'[t].ar_sim_state = LOCAL_SLEEPING]_vars

\* With the flag set, two updates of one substep each have left the still
\* actor of slot 0, one substep short of 10 s, simulated with its timer
\* where it was.
C23_Witness ==
    /\ m_forced_active
    /\ pc = "idle"
    /\ dt_log = <<PHYSICS_DT, PHYSICS_DT>>
    /\ m_player_actor = NONE
    /\ m_actors[0] # NULL
    /\ ~m_actors[0].moving
    /\ m_actors[0].ar_sim_state = LOCAL_SIMULATED
    /\ m_actors[0].ar_sleep_counter = SLEEP_THRESHOLD - PHYSICS_DT

\* C24: after every UpdateSleepingState pass (update past its join,
\* setCurrentTruck) the player actor, when there is one in the table and it
\* was LOCAL_SIMULATED or LOCAL_SLEEPING, is LOCAL_SIMULATED with its sleep
\* timer at zero.
C24_PlayerActorAwake ==
    [][AnySleepingStatePass =>
        LET p == m_player_actor'
        IN  (/\ p >= 0 /\ p < m_free_actor_slot
             /\ m_actors[p] # NULL
             /\ m_actors[p].ar_sim_state \in {LOCAL_SIMULATED, LOCAL_SLEEPING})
            => /\ m_actors'[p] # NULL
               /\ m_actors'[p].ar_sim_state = LOCAL_SIMULATED
               /\ m_actors'[p].ar_sleep_counter = 0]_vars

\* sendAllTrucksSleeping has put every actor to sleep, the moving actor of
\* slot 1 included; a pass after it has the player actor of slot 0, far
\* from it, simulated again with its timer at zero.
C24_Witness ==
    /\ pc = "idle"
    /\ m_player_actor = 0
    /\ m_actors[0] # NULL /\ m_actors[1] # NULL
    /\ m_actors[0].ar_bounding_box = Places[4].bb
    /\ m_actors[0].ar_sim_state = LOCAL_SIMULATED
    /\ m_actors[0].ar_sleep_counter = 0
    /\ m_actors[1].moving
    /\ m_actors[1].ar_sim_state = LOCAL_SLEEPING


\* The operation op is among those made on actor t since its last prepare.
Did(t, op) == \E k \in DOMAIN did[t].ops : did[t].ops[k] = op

\* The step makes the operation op on actor t.
Gains(t, op) == Did(t, op)' /\ (~Did(t, op) \/ did'[t].i # did[t].i)

\* C25 as stated: with or without a worker pool, when calcForcesEulerFinal
\* of an actor runs in a substep, calcForcesEulerCompute of every actor
\* that takes part in that substep has run for that substep.
C25_FinalAfterEveryCompute ==
    [][\A t \in Slots :
          Gains(t, "final")
          => \A u \in RefPart : did'[u].i = did'[t].i /\ Did(u, "compute")']_vars


\* No task of a batch is queued or running.
NoTaskOutstanding == \A t \in Slots : batch[t].at \in {"none", "done"}

\* Actor u is already in substep k, or it is in substep k-1 with its
\* compute and its final made.
SubstepBefore(u, k) ==
    \/ did[u].i = k
    \/ did[u].i = k - 1 /\ Did(u, "compute") /\ Did(u, "final")

\* C26: the substeps are separated by a barrier.  When calcForcesEulerPrepare
\* or calcForcesEulerCompute of an actor runs for a substep after the first,
\* every participating actor that is not yet in that substep has had its
\* compute and its final of the substep before, and no task of an earlier
\* batch is queued or running when the actors are prepared; when the
\* substep counter advances or the invocation returns, no task is queued or
\* running.
C26_SubstepBarrier ==
    [][/\ \A t \in Slots :
            ((Gains(t, "prepare") \/ Gains(t, "compute")) /\ did'[t].i > 0)
            => \A u \in RefPart : SubstepBefore(u, did'[t].i)
       /\ \A t \in Slots : Gains(t, "prepare") => NoTaskOutstanding
       /\ sim' # sim => NoTaskOutstanding]_vars

\* The second substep on a pool of two workers: the compute task of one
\* actor has ended, that of another is running.
C26_Witness ==
    /\ threadPool = 2
    /\ sim.pc = "loop"
    /\ sim.i = 1
    /\ phase = "compute"
    /\ \E t, u \in Slots :
          /\ batch[t].at = "done" /\ did[t].i = 1 /\ Did(t, "compute")
          /\ batch[u].at = "compute" /\ did[u].i = 1


\* The place of an operation in the order in which the branch with a pool
\* makes the operations of a substep on an actor (lines 1167-1232), and of
\* postUpdatePhysics after them.
OpRank(op) ==
    CASE op = "prepare" -> 0
      [] op = "compute" -> 1
      [] op = "intra"   -> 2
      [] op = "final"   -> 3
      [] op = "update"  -> 4
      [] op = "collide" -> 5
      [] op = "post"    -> 6

\* The operations made on actor t since its last prepare are in the order
\* of the branch with a pool.
InPooledOrder(t) ==
    \A j, k \in DOMAIN did[t].ops :
        j < k => OpRank(did[t].ops[j]) < OpRank(did[t].ops[k])

\* C27 as stated: without a worker pool the operations of a substep are
\* made on every participating actor in the same relative order as with a
\* pool: prepare, compute, intra-actor collisions, final, then the
\* inter-actor collision operations.
C27_SerialOrderIsPooledOrder ==
    threadPool = 0 => \A t \in Slots : InPooledOrder(t)


\* C28: an inter-actor collision operation (InterPointCD()->update,
\* interTruckCollisions) is made in a substep only when more than one actor
\* takes part in the substep, only on a participating actor whose
\* ar_disable_actor2actor_collision is unset, only when calcForcesEulerFinal
\* of that substep has been made on every participating actor, and while no
\* actor is in a later substep; and when an actor is prepared for the next
\* substep, the inter-actor collision operations of the substep before have
\* been made on every actor they are due on and none is running.
C28_InterActorPhase ==
    [][/\ \A t \in Slots :
            (Gains(t, "update") \/ Gains(t, "collide"))
            => /\ Cardinality(RefPart) > 1
               /\ t \in RefPart
               /\ Participates(t)
               /\ ~body[t].ar_disable_actor2actor_collision
               /\ did'[t].i = sim.i
               /\ \A u \in RefPart : did[u].i = sim.i /\ Did(u, "final")
               /\ \A u \in Slots : did[u].i <= sim.i
       /\ \A t \in Slots :
            (Gains(t, "prepare") /\ did'[t].i > 0)
            => /\ \A u \in Slots : batch[u].at \notin {"queued", "update", "collide"}
               /\ \A u \in RefPart :
                    (/\ did[u].i = did'[t].i - 1
                     /\ Cardinality(RefPart) > 1
                     /\ ~body[u].ar_disable_actor2actor_collision)
                    => Did(u, "update")]_vars

\* Without a pool, the second substep has begun: in the first, the
\* inter-actor collision loop has acted on one participating actor and has
\* passed over another whose ar_disable_actor2actor_collision is set.
C28_Witness ==
    /\ threadPool = 0
    /\ sim.pc = "loop"
    /\ sim.i = 1
    /\ \E t, u \in RefPart :
          /\ did[t].i = 0 /\ Did(t, "collide")
          /\ did[u].i = 0 /\ Did(u, "final") /\ ~Did(u, "update")
          /\ body[u].ar_disable_actor2actor_collision


\* C29 as stated: the postUpdatePhysics loop, which runs when every substep
\* of the frame has ended and no task is outstanding, calls
\* postUpdatePhysics on exactly the actors that took part in the last
\* substep of the frame, and on none when the frame has no substep.
C29_PostUpdateForLastParticipants ==
    [][DispPostUpdate =>
        /\ NoTaskOutstanding
        /\ \A t \in Slots :
              Did(t, "post")' <=> (/\ m_physics_steps > 0
                                   /\ did[t].i = m_physics_steps - 1
                                   /\ Did(t, "compute"))]_vars


\* C30 as stated: while an UpdatePhysicsSimulation task dispatched to
\* m_sim_thread_pool has not run to its end, no step changes
\* m_physics_steps, and when the task ends it has run as many substeps as
\* the update() that dispatched it planned.
C30_TaskRunsPlannedSubsteps ==
    /\ [][(sim_queue # <<>> /\ pc' # "destroyed")
            => m_physics_steps' = m_physics_steps]_vars
    /\ [][(SimPostUpdate /\ sim_queue # <<>>)
            => sim.i = steps_log[Head(sim_queue)]]_vars


\* C31 as stated: removeTruck(i) reads m_actors only at indices
\* 0 <= i < m_free_actor_slot; for every other i, i = m_free_actor_slot
\* included, it returns without reading or changing the table; and no call
\* takes a NETWORKED_OK actor out of the table.
C31_RemoveTruckInsideMark ==
    [][\A truck \in TruckArgs, oob \in OobValues :
          removeTruckTraced(truck, oob)
          => /\ slot_read' \subseteq 0 .. (m_free_actor_slot - 1)
             /\ truck \notin 0 .. (m_free_actor_slot - 1)
                  => (slot_read' = {} /\ m_actors' = m_actors)
             /\ \A t \in Slots :
                  (m_actors[t] # NULL /\ m_actors[t].ar_sim_state = NETWORKED_OK)
                  => m_actors'[t] = m_actors[t]]_vars


\* The UpdateSleepingState run of the update call of this step.
ThisPass == UpdateSleepingStateRun(Cur, PassDt)

\* C32: every UpdateSleepingState pass comes to its end with every call of
\* RecursiveActivation returned; within the pass visited.set is called at
\* most once per actor, so no actor is expanded twice and at most
\* m_free_actor_slot calls are ever nested; and no actor that is
\* LOCAL_SIMULATED when the propagation starts is anything else when it ends.
C32_ActivationVisitsOnce ==
    [][SleepingStatePass =>
        /\ m_actors' = ThisPass.A
        /\ ThisPass.d = 0
        /\ \A a, b \in DOMAIN ThisPass.E : a # b => ThisPass.E[a] # ThisPass.E[b]
        /\ Len(ThisPass.E) <= m_free_actor_slot
        /\ ThisPass.D <= m_free_actor_slot
        /\ \A t \in Slots :
              (ThisPass.A0[t] # NULL /\ ThisPass.A0[t].ar_sim_state = LOCAL_SIMULATED)
              => ThisPass.A[t].ar_sim_state = LOCAL_SIMULATED]_vars

\* A pass has run on a table of three actors in a chain, the player actor
\* in slot 0, the far end of the chain in slot 1 and the middle in slot 2:
\* the two sleeping actors have been woken through RecursiveActivation
\* calls nested three deep, and the last loop has found all three visited.
C32_Witness ==
    /\ m_physics_frames = 1
    /\ m_player_actor = 0
    /\ \A t \in Slots : m_actors[t] # NULL
    /\ m_actors[0].ar_bounding_box = Places[1].bb
    /\ m_actors[1].ar_bounding_box = Places[3].bb
    /\ m_actors[2].ar_bounding_box = Places[2].bb
    /\ \A t \in Slots : /\ m_actors[t].ar_sim_state = LOCAL_SIMULATED
                        /\ m_actors[t].ar_sleep_counter = 0
    /\ ~m_actors[1].moving /\ ~m_actors[2].moving

====
